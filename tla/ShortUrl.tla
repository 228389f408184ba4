------------------------------ MODULE ShortUrl ------------------------------
(***************************************************************************)
(* Short links (shorten/t.go, uchat/sync.go).  A probe shortens one known  *)
(* link and visits the result, once while the process starts and again     *)
(* three seconds after each probe; it sets a switch.  Callers who find the *)
(* switch off keep their long link, the others ask the service.            *)
(***************************************************************************)
EXTENDS Integers

CONSTANTS
  Callers,    \* goroutines that shorten a link
  MaxChanges  \* bound on changes of the service

ASSUME ShortUrlAssumption == MaxChanges \in Nat

\* What the service does with a request: it shortens; it fails, or answers
\* without the short link; it answers a list that is empty or too long; it does
\* not answer.
Behaviours == {"shorten", "fail", "malformed", "hang"}

VARIABLES
  api,       \* the service
  site,      \* its short links lead to a page
  enabled,   \* shortEnable
  probe,     \* testStatus
  up,        \* the package is initialised: callers may come
  caller,    \* caller[c]
  result,    \* result[c]: the latest link returned to c
  current,   \* history: a probe began and ended since the last change
  begun,     \* history: the probe in progress began since the last change
  fresh,     \* history: fresh[c]: c read the switch since current, and no change since
  changes

service == <<api, site, changes>>
vars == <<service, enabled, probe, up, caller, result, current, begun, fresh>>

Works == api = "shorten" /\ site

-----------------------------------------------------------------------------
\* The end of testStatus: the switch, and the timer of the next probe
Switch(value) ==
  /\ enabled' = value
  /\ probe' = "timer"
  /\ up' = TRUE
  /\ current' = (current \/ begun)
  /\ UNCHANGED begun

\* A panic: the process starts again with the switch on and a probe.
Die ==
  /\ enabled' = TRUE
  /\ probe' = "ask"
  /\ up' = FALSE
  /\ caller' = [c \in Callers |-> "idle"]
  /\ result' = [c \in Callers |-> "none"]
  /\ current' = FALSE
  /\ begun' = TRUE
  /\ fresh' = [c \in Callers |-> FALSE]

\* time.AfterFunc
Timer ==
  /\ probe = "timer"
  /\ probe' = "ask"
  /\ begun' = TRUE
  /\ UNCHANGED <<enabled, up, caller, result, current, fresh>>

\* Mutant: a failure of the service leaves the switch alone.
AskOnly ==
  /\ probe = "ask"
  /\ \/ /\ api = "shorten"
        /\ probe' = "visit"
        /\ UNCHANGED <<enabled, up, current, begun>>
     \/ api = "fail" /\ Switch(enabled)
  /\ UNCHANGED <<caller, result, fresh>>

\* shorts of the known link: on failure the link comes back unchanged.
AskService ==
  /\ probe = "ask"
  /\ \/ /\ api = "shorten"
        /\ probe' = "visit"
        /\ UNCHANGED <<enabled, up, current, begun>>
     \/ api = "fail" /\ Switch(FALSE)
     \/ /\ api = "hang"
        /\ probe' = "hung"
        /\ UNCHANGED <<enabled, up, current, begun>>
  /\ UNCHANGED <<caller, result, fresh>>

\* Mutant: once off, the switch stays off.
VisitOff ==
  /\ probe = "visit"
  /\ Switch(enabled /\ site)
  /\ UNCHANGED <<caller, result, fresh>>

\* testClient.Get, with a timeout of two seconds
Visit ==
  /\ probe = "visit"
  /\ Switch(site)
  /\ UNCHANGED <<caller, result, fresh>>

\* Shorts: the switch is read under the lock.  If it is off the link comes back
\* as it is.
Begin(c) ==
  /\ up
  /\ caller[c] = "idle"
  /\ IF enabled
     THEN caller' = [caller EXCEPT ![c] = "ask"] /\ UNCHANGED result
     ELSE result' = [result EXCEPT ![c] = "long"] /\ UNCHANGED caller
  /\ fresh' = [fresh EXCEPT ![c] = current]
  /\ UNCHANGED <<enabled, probe, up, current, begun>>

\* Mutant: a caller whose request fails tries again.
RetryAnswer(c) ==
  /\ caller[c] = "ask"
  /\ api = "shorten"
  /\ caller' = [caller EXCEPT ![c] = "idle"]
  /\ result' = [result EXCEPT ![c] = IF site THEN "short" ELSE "dead"]
  /\ UNCHANGED <<enabled, probe, up, current, begun, fresh>>

\* shorts, outside the lock
Answer(c) ==
  /\ caller[c] = "ask"
  /\ \/ /\ api = "shorten"
        /\ caller' = [caller EXCEPT ![c] = "idle"]
        /\ result' = [result EXCEPT ![c] = IF site THEN "short" ELSE "dead"]
     \/ /\ api = "fail"
        /\ caller' = [caller EXCEPT ![c] = "idle"]
        /\ result' = [result EXCEPT ![c] = "long"]
     \/ /\ api = "hang"
        /\ caller' = [caller EXCEPT ![c] = "hung"]
        /\ UNCHANGED result
  /\ UNCHANGED <<enabled, probe, up, current, begun, fresh>>

\* short[0], ret[0] or links[k] out of range
Panic ==
  /\ api = "malformed"
  /\ probe = "ask" \/ \E c \in Callers : caller[c] = "ask"
  /\ Die

Change ==
  /\ changes < MaxChanges
  /\ changes' = changes + 1
  /\ api' \in Behaviours
  /\ site' \in BOOLEAN
  /\ <<api', site'>> # <<api, site>>
  /\ current' = FALSE
  /\ begun' = FALSE
  /\ fresh' = [c \in Callers |-> FALSE]
  /\ UNCHANGED <<enabled, probe, up, caller, result>>

-----------------------------------------------------------------------------
Init ==
  /\ api \in Behaviours
  /\ site \in BOOLEAN
  /\ enabled = TRUE
  /\ probe = "ask"
  /\ up = FALSE
  /\ caller = [c \in Callers |-> "idle"]
  /\ result = [c \in Callers |-> "none"]
  /\ current = FALSE
  /\ begun = TRUE
  /\ fresh = [c \in Callers |-> FALSE]
  /\ changes = 0

Probe == Timer \/ AskService \/ Visit

Next ==
  \/ /\ Probe \/ Panic \/ \E c \in Callers : Begin(c) \/ Answer(c)
     /\ UNCHANGED service
  \/ Change

Spec == Init /\ [][Next]_vars

\* The timer fires, goroutines are scheduled, and a request that does not hang
\* comes back.
FairSpec ==
  /\ Spec
  /\ WF_vars((Probe \/ Panic) /\ UNCHANGED service)
  /\ \A c \in Callers : WF_vars((Answer(c) \/ Panic) /\ UNCHANGED service)

-----------------------------------------------------------------------------
(* Properties.                                                             *)

\* A caller that reads the switch after a whole probe gets a short link exactly
\* if the service works, as long as the service does not change: never a dead
\* one, although probe and callers take the lock only for the switch (t.go
\* 52-83).
FreshAnswers ==
  \A c \in Callers : fresh[c] /\ caller[c] = "idle" /\ result[c] # "none" =>
    result[c] = IF Works THEN "short" ELSE "long"

\* The switch follows the service: off for good once it fails for good, and on
\* again once it works, unless the probe hangs on a request without a timeout
\* (t.go 52-69, 133).
Hangs == <>[](probe = "hung")
SwitchFollows ==
  /\ <>[](api = "fail" \/ (api = "shorten" /\ ~site)) => <>[](~enabled) \/ Hangs
  /\ <>[]Works => <>[]enabled \/ Hangs

\* Whoever asks for a short link gets an answer, at the latest with a restart,
\* unless the service does not answer.
CallersReturn ==
  \A c \in Callers : caller[c] = "ask" ~> caller[c] = "idle" \/ api = "hang"
=============================================================================
