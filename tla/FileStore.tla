------------------------------- MODULE FileStore -------------------------------
(***************************************************************************)
(* What rustclr-flashfs promises: a store of named blobs in which a call   *)
(* that returns Ok has taken effect, a call refused for want of room has   *)
(* changed nothing, and a call cut short may have spoilt the one file it   *)
(* was about and no other.                                                 *)
(***************************************************************************)
EXTENDS Naturals, Sequences

CONSTANTS Names, Bytes,
          None,        \* there is no such file
          MaxLen       \* bound on the length of a file

VARIABLES store,       \* what `read` answers, by name
          call,        \* the call in progress, or None
          outcome      \* how the last call ended

Data == UNION {[1 .. k -> Bytes] : k \in 0 .. MaxLen}
Calls == [op : {"write", "append"}, name : Names, data : Data]
         \cup [op : {"delete", "mkdir"}, name : Names, data : {<<>>}]

Init == store = [n \in Names |-> None] /\ call = None /\ outcome = "ok"

Existing(old) == IF old = None THEN <<>> ELSE old

(* What a call leaves of the file it names.                                 *)
After(c, old) ==
  CASE c.op = "write"  -> c.data
    [] c.op = "append" -> Existing(old) \o c.data
    [] c.op = "delete" -> None
    [] c.op = "mkdir"  -> Existing(old)

Begin(c) == call = None /\ call' = c /\ outcome' = "busy" /\ UNCHANGED store

Return(how) == call # None /\ call' = None /\ outcome' = how

Complete == /\ Return("ok")
            /\ store' = [store EXCEPT ![call.name] = After(call, @)]

Refuse == Return("full") /\ UNCHANGED store

(* A reset, or a cell that would not take its value.                        *)
CutShort == /\ Return("cut")
            /\ \A m \in Names \ {call.name} : store'[m] = store[m]

Next == (\E c \in Calls : Begin(c)) \/ Complete \/ Refuse \/ CutShort

Spec == Init /\ [][Next]_<<store, call, outcome>>
=============================================================================
