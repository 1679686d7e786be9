--------------------------- MODULE MC_LinkService ---------------------------
(***************************************************************************)
(* Instances of LinkService for TLC: the calls of each run, and the tables *)
(* it starts from.                                                         *)
(***************************************************************************)
EXTENDS LinkService, TLC

CONSTANTS c1, t1, t2, r1, r2, r3

Symmetry == Permutations(Requests)

(* A call with nothing but a code.                                         *)
On(op, code) == [op |-> op, code |-> code, target |-> t1, version |-> 0, ttl |-> 0,
                 valid |-> TRUE]
Creating(op, code, ttl) == [On(op, code) EXCEPT !.ttl = ttl, !.target = t2]
Updating(code, version) == [On("update", code) EXCEPT !.version = version, !.target = t2]
Rejected(call) == [call EXCEPT !.valid = FALSE]

(* A row that was in the database before the start.                        *)
Old(code, expires_at) == [id |-> 0, code |-> code, target |-> t1, version |-> 1, hits |-> 0,
                          expires_at |-> expires_at]

OneLink == {{Old(c1, 0)}}
ExpiringLink == {{Old(c1, 1)}}

(* Everything that touches one code.                                       *)
AllCalls == {Creating("create", c1, 2), Updating(c1, 1), On("get", c1), On("redirect", c1),
             On("delete", c1)}
(* Reads against writes.                                                   *)
ReadCalls == {Updating(c1, 1), On("get", c1), On("delete", c1)}
(* Fills of the cache against one writer.                                  *)
FillCalls == {Updating(c1, 1), On("get", c1)}
(* Writers against writers, and a GET that sees what they did.              *)
WriteCalls == {Updating(c1, 1), Updating(c1, 2), On("get", c1), On("redirect", c1),
               On("delete", c1)}
(* Links that come and go under a code, chosen or generated, and gRPC.     *)
CreateCalls == {Creating("create", NoCode, 0), Creating("grpc_create", NoCode, 2),
                Creating("create", c1, 2), On("grpc_get", c1), On("delete", c1),
                Rejected(Creating("create", c1, 0))}
(* Everything that can be asked.                                           *)
EveryCall == AllCalls \cup CreateCalls
=============================================================================
