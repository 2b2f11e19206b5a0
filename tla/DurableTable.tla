---------------------------- MODULE DurableTable ----------------------------
(***************************************************************************)
(* What a caller of the embedded database relies on.  A statement that     *)
(* succeeded is there after any reset, with everything that was to be read *)
(* when it was written; one cut short by a reset took effect whole or not  *)
(* at all.  A statement may be refused although it took effect, when its   *)
(* effect cannot be written: it is read from then on, and is gone after a  *)
(* reset unless a later statement was written in between.                  *)
(***************************************************************************)
CONSTANTS Statements,              \* what execute can be called with
          Empty,                   \* the content of a new database
          Idle,                    \* stands for no statement in progress
          Accepts(_, _),           \* may the statement be executed on it?
          Effect(_, _),            \* its content after the statement
          MayFail                  \* can writing fail?

VARIABLES content,                 \* what a reset brings back
          read,                    \* what a program reads
          call                     \* the statement being executed

tableVars == <<content, read, call>>

TableInit == content = Empty /\ read = Empty /\ call = Idle

Begin(s) == /\ call = Idle /\ call' = s
            /\ Accepts(read, s) /\ read' = Effect(read, s)
            /\ UNCHANGED content

\* Everything read is to last, and the caller hears of it later or never.
Commit == /\ call # Idle
          /\ content' = read /\ call' = Idle
          /\ UNCHANGED read

Refuse == /\ MayFail /\ call # Idle
          /\ call' = Idle
          /\ UNCHANGED <<content, read>>

Reset == /\ read' = content /\ call' = Idle
         /\ UNCHANGED content

TableNext == (\E s \in Statements : Begin(s)) \/ Commit \/ Refuse \/ Reset

TableSpec == TableInit /\ [][TableNext]_tableVars
=============================================================================
