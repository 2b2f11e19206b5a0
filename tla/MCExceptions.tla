---------------------------- MODULE MCExceptions ----------------------------
EXTENDS Exceptions, StructuredExceptions

CONSTANT Shapes      \* which programs: "regular", or a shape of Wrong

Leaves == {<<MarkOf("body")>>, <<ThrowOf("A")>>, <<ThrowOf("B")>>}
Calls == {<<CallIt, MarkOf("after call")>>}
Handlers == {<<MarkOf("handler")>>, <<MarkOf("handler"), ThrowOf("B")>>,
             <<MarkOf("handler"), RethrowIt>>}
Finals == {<<MarkOf("finally")>>, <<MarkOf("finally"), ThrowOf("B")>>}

\* A try around each of the bodies.
Plain(bodies) ==
       {<<CatchOf(b, t, h), MarkOf("after")>> : b \in bodies, t \in {"A", "any"}, h \in Handlers}
  \cup {<<FinallyOf(b, f), MarkOf("after")>> : b \in bodies, f \in Finals}
Filtered(bodies, verdicts) ==
  {<<FilterOf(b, v, <<MarkOf("handler")>>), MarkOf("after")>> : b \in bodies, v \in verdicts}

Simple == Plain(Leaves) \cup Filtered(Leaves, {"accepts", "declines"})
Throwing == Filtered(Leaves, {"throws"})
TryInHandler == {<<CatchOf(b, "any", i)>> : b \in Leaves, i \in Simple}

\* Two levels in one method, or three with the innermost in a method called
\* from the second.
Mains == Plain(Simple) \cup Filtered(Simple, {"accepts"}) \cup TryInHandler \cup Throwing
Asking == Plain(Filtered(Calls, {"accepts", "declines"})) \cup Filtered(Calls, {"throws"})
Callees == Simple \cup Throwing

\* Methods an exception leaves through a finally block.
Unwound == {<<FinallyOf(b, f), MarkOf("after")>> :
              b \in {<<ThrowOf("A")>>, <<ThrowOf("B")>>}, f \in Finals}

Alone(mains) == mains \X {<<>>}
Regular == Alone(Mains) \cup (Plain(Plain(Calls)) \X Callees) \cup (Asking \X (Callees \ Unwound))

\* The shapes eh.rs gets wrong.
Wrong(shape) ==
  CASE shape = "rethrow after a try" ->
         Alone({<<CatchOf(b, "any", Append(i, RethrowIt))>> : b \in Leaves, i \in Plain(Leaves)})
    [] shape = "try in a finally" -> Alone({<<FinallyOf(b, i)>> : b \in Leaves, i \in Plain(Leaves)})
    [] shape = "filter over a finally" -> Alone(Filtered(Plain(Leaves), {"declines"}))
    [] shape = "filter throws in a try" -> Alone(Plain(Throwing))
    [] shape = "filter over a call" -> Asking \X Unwound

MCPrograms ==
  UNION {{ProgramOf(p[1], p[2], s) : p \in IF s = "regular" THEN Regular ELSE Wrong(s)} : s \in Shapes}

=============================================================================
