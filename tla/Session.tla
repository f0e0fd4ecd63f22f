------------------------------ MODULE Session ------------------------------
(***************************************************************************)
(* The browser session of the admin UI: the login token (AppState.jsx),    *)
(* the login form (Login.tsx), what the browser keeps across a refresh     *)
(* (localStorage), and the HTTP requests in flight.                        *)
(*                                                                         *)
(* A request is sent in one step, answered by the server in another and    *)
(* its answer handled in a third: the code that follows `await fetch` runs *)
(* then, with the values its closure captured when the handler started.    *)
(***************************************************************************)
EXTENDS Integers

CONSTANTS
    Slots,      \* the requests that can be in flight together are these many
    LeftCurrent \* zones.current as an earlier session left it in localStorage

VARIABLES
    token,      \* AppState: is there a loginToken
    hasError,   \* Login: its error screen, "Refresh to try again!"
    storage,    \* localStorage: zones.current and zones.direction
    requests    \* the requests in flight, by slot

sessionVars == <<token, hasError, storage>>

NoRequest == [kind |-> "none"]
Pending == [status |-> "pending"]
Ok == [status |-> "ok"]
Refused == [status |-> "refused"]     \* an answer that is not res.ok
Failed == [status |-> "failed"]       \* fetch rejects

IsPending(s) == requests[s].kind # "none" /\ requests[s].answer = Pending
IsAnswered(s, kind) == requests[s].kind = kind /\ requests[s].answer # Pending
Free(s) == requests[s].kind = "none" /\ \A t \in Slots : t < s => requests[t].kind # "none"

SessionInit ==
    /\ token = FALSE
    /\ hasError = FALSE
    /\ storage \in {[current |-> 0, direction |-> "forward"],
                   [current |-> LeftCurrent, direction |-> "backward"]}
    /\ requests = [s \in Slots |-> NoRequest]

IsLoggedIn == token

\* The login form is there to be submitted. It stays while an earlier submit
\* is in flight.
LoginShown == ~IsLoggedIn /\ ~hasError

\* Login.submit up to `await fetch`. An impatient user submits the same
\* credentials again.
Submit(s, valid) ==
    /\ LoginShown
    /\ Free(s)
    /\ \A t \in Slots : requests[t].kind = "login" => requests[t].valid = valid
    /\ requests' = [requests EXCEPT ![s] =
                        [kind |-> "login", valid |-> valid, answer |-> Pending]]
    /\ UNCHANGED sessionVars

\* /version answers whoever authenticates.
ServeLogin(s) ==
    /\ IsPending(s) /\ requests[s].kind = "login"
    /\ requests' = [requests EXCEPT ![s].answer = IF requests[s].valid THEN Ok ELSE Refused]
    /\ UNCHANGED sessionVars

\* Mutant: the saved list position is not reset.
LoginAnsweredKeepsPosition(s) ==
    /\ IsAnswered(s, "login")
    /\ requests' = [requests EXCEPT ![s] = NoRequest]
    /\ token' = (token \/ requests[s].answer = Ok)
    /\ storage' = storage
    /\ hasError' = (hasError \/ (requests[s].answer = Failed /\ ~IsLoggedIn))

\* Login.submit after `await fetch`: the token is kept and the saved list
\* position reset when the answer is ok; a refusal changes nothing; a failed
\* fetch brings up the error screen of a login form that is still there.
LoginAnswered(s) ==
    /\ IsAnswered(s, "login")
    /\ requests' = [requests EXCEPT ![s] = NoRequest]
    /\ token' = (token \/ requests[s].answer = Ok)
    /\ storage' = IF requests[s].answer = Ok
                  THEN [storage EXCEPT !.current = 0] ELSE storage
    /\ hasError' = (hasError \/ (requests[s].answer = Failed /\ ~IsLoggedIn))
=============================================================================
