-------------------------------- MODULE Browser -------------------------------
(***************************************************************************)
(* What the pages of the web interface share: a request leaves the page,   *)
(* the backend serves it at one moment, and its answer is applied at       *)
(* another.  Handlers run up to an await without interruption; between     *)
(* await and continuation the user and the other answers go on.            *)
(***************************************************************************)
EXTENDS Naturals, FiniteSets, SequencesExt

CONSTANT Nil   \* null, '' and undefined

\* A page asks, and its answer is still to come.  Then apiFetch hands back a
\* response the caller accepts, "ok", or throws, "failed": the backend refused,
\* or the connection was lost before or after the request was served.
Open(calls) == {c \in calls : c.answer = "asked"}
Answered(calls) == {c \in calls : c.answer # "asked"}

\* The call c of the set, served with the given answer.
Serve(calls, c, answered) == (calls \ {c}) \cup {answered}
===============================================================================
