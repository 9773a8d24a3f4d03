---------------------------- MODULE ConsolePages ----------------------------
(***************************************************************************)
(* The console as its users meet it: the login page and the pages behind   *)
(* it.                                                                     *)
(*                                                                         *)
(* Signing in: the logins and their sessions (ConsoleLogins) beside the    *)
(* window of failed guesses (LoginThrottle), which POST /login of          *)
(* src/console/index.js looks at before it reads a login and which no      *)
(* other request touches, so the two share no state.  Pages: the answer of *)
(* the assistant (AskLoop) and the data grid (GridView), which the browser *)
(* keeps apart.                                                            *)
(***************************************************************************)
EXTENDS ConsoleLogins, LoginThrottle, AskLoop, GridView

SignInsSpec == LoginsSpec /\ ThrottleSpec

\* Some administrator can always sign in and sessions are of those who may
\* (ConsoleLogins); guesses are throttled, and an answered wait is enough
\* (LoginThrottle).
SignInsSafe == AdminRemains /\ SessionsKnow /\ ThrottleHolds /\ WaitIsEnough

ScreenSpec == AskSpec /\ GridSpec

\* The chart of an answer fits its result (AskLoop), and "Delete selected" deletes
\* what the page shows as ticked (GridView).
ScreenTrue == AnswerHolds /\ SelectionShown
=============================================================================
