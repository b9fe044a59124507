---------------------------- MODULE FixedWindow ----------------------------
(***************************************************************************)
(* What rate limiting promises: each key has at most one window open, a    *)
(* window opens with the first request that finds none, closes WindowMs    *)
(* later on the dot, and admits the first Limit[k] requests that fall in   *)
(* it.  Nothing is stored and nothing is cleaned up here.                  *)
(***************************************************************************)
EXTENDS Integers

CONSTANTS
    Keys,       \* what is counted separately
    Limit,      \* [Keys -> the requests one window admits]
    WindowMs,   \* the length of a window
    Closed      \* no window is open

VARIABLES
    now,        \* the clock
    window,     \* [Keys -> the open window, or Closed]
    verdict     \* the last answer: its key, admitted or not, and the headers

windowVars == <<now, window, verdict>>

NoVerdict == [key |-> Closed, admitted |-> TRUE, remaining |-> 0, resetAt |-> 0]

Remaining(limit, count) == IF count < limit THEN limit - count ELSE 0

Verdict(k, w) ==
    [key |-> k, admitted |-> w.count <= Limit[k],
     remaining |-> Remaining(Limit[k], w.count), resetAt |-> w.resetAt]

Init ==
    /\ now = 0
    /\ window = [k \in Keys |-> Closed]
    /\ verdict = NoVerdict

Arrive(k) ==
    LET w == IF window[k] = Closed
             THEN [count |-> 1, resetAt |-> now + WindowMs]
             ELSE [count |-> window[k].count + 1, resetAt |-> window[k].resetAt]
    IN  /\ window' = [window EXCEPT ![k] = w]
        /\ verdict' = Verdict(k, w)
        /\ UNCHANGED now

Tick ==
    /\ now' = now + 1
    /\ window' = [k \in Keys |->
                    IF window[k] # Closed /\ window[k].resetAt <= now'
                    THEN Closed ELSE window[k]]
    /\ UNCHANGED verdict

Next == Tick \/ \E k \in Keys : Arrive(k)

Spec == Init /\ [][Next]_windowVars
=============================================================================
