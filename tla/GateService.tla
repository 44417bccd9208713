---------------------------- MODULE GateService ----------------------------
(***************************************************************************)
(* What the server promises about the writes of one vault: a request that  *)
(* was submitted takes effect at most once, in one step, and only if its   *)
(* parent hash matches the row at that moment.  Everything else (a failed  *)
(* gate, a put that already landed, a limit, an internal error) answers    *)
(* the request and changes nothing.                                        *)
(***************************************************************************)
EXTENDS FileGate

CONSTANT Requests

VARIABLE call      \* the request each slot waits an answer for, or None

serviceVars == <<gateVars, call>>

Call == [op : {"put", "delete"}, path : Paths, parent : Hashes \cup {NoHash},
         hash : Hashes, content : Contents]

ServiceInit == GateInit /\ call = [r \in Requests |-> None]

Submit(r) ==
    /\ call[r] = None
    /\ \E c \in Call : call' = [call EXCEPT ![r] = c]
    /\ UNCHANGED gateVars

\* The request lands.
Serve(r) ==
    /\ call[r] # None
    /\ LET c == call[r]
       IN  \/ /\ c.op = "put"
              /\ put_gate(rows[c.path], c.parent, c.hash) = "accept"
              /\ CommitPut(c.path, c.hash, c.content)
           \/ /\ c.op = "delete"
              /\ delete_gate(rows[c.path], c.parent) = "accept"
              /\ CommitDelete(c.path)
    /\ call' = [call EXCEPT ![r] = None]

Refuse(r) ==
    /\ call[r] # None
    /\ call' = [call EXCEPT ![r] = None]
    /\ UNCHANGED gateVars

\* A restart drops every request.
RefuseAll ==
    /\ call' = [r \in Requests |-> None]
    /\ UNCHANGED gateVars

ServiceNext ==
    \/ \E r \in Requests : Submit(r) \/ Serve(r) \/ Refuse(r)
    \/ RefuseAll

ServiceSpec == ServiceInit /\ [][ServiceNext]_serviceVars
=============================================================================
