------------------------------ MODULE LiveWatch ------------------------------
(***************************************************************************)
(* The live tab of the traffic log page: it polls one proxy at an interval *)
(* and the server keeps an entry for the proxy, which says what has been   *)
(* shown, until the page asks to forget it.  Requests overtake each other  *)
(* and get lost; the user stops, starts on another proxy, goes to other    *)
(* pages while the interval goes on, comes back, and loads documents anew. *)
(* The server's side of one poll is in LiveTail.                           *)
(***************************************************************************)
EXTENDS Naturals

CONSTANTS
    Proxies,
    None,       \* no proxy is watched
    MaxWatches, \* bound on the watches
    MaxPolls    \* bound on the polls

WatchAssumption == None \notin Proxies /\ MaxWatches \in Nat /\ MaxPolls \in Nat

VARIABLES
    here,      \* the page is shown
    watched,   \* _liveProxyId
    interval,  \* _liveInterval; 0 is null
    timers,    \* the intervals that run
    idle,      \* the start button is shown, and not the stop button
    table,     \* the watches with rows in the table
    calls,     \* requests the server has not served
    answers,   \* answers of polls on their way, as the watches that polled
    live,      \* the server: proxies with an entry
    watches, polls,
    excused    \* history: proxies whose entry a poll may have set after it was
               \* to go, or whose last request to forget it was lost or not made

vars == <<here, watched, interval, timers, idle, table, calls, answers, live,
          watches, polls, excused>>
pageVars == <<here, watched, interval, timers, idle, watches>>

Watches == 1 .. MaxWatches
Polled == [poll : 1 .. MaxPolls, proxy : Proxies, watch : Watches]
Forgets == [forget : Proxies]

TypeOK ==
    /\ here \in BOOLEAN /\ idle \in BOOLEAN
    /\ watched \in Proxies \cup {None}
    /\ interval \in 0 .. MaxWatches /\ timers \subseteq Watches
    /\ table \subseteq Watches /\ answers \subseteq Watches
    /\ calls \subseteq Polled \cup Forgets
    /\ live \subseteq Proxies /\ excused \subseteq Proxies
    /\ watches \in 0 .. MaxWatches /\ polls \in 0 .. MaxPolls

Init ==
    /\ here = TRUE /\ idle = TRUE /\ watched = None /\ interval = 0 /\ timers = {}
    /\ table = {} /\ calls = {} /\ answers = {} /\ live = {} /\ excused = {}
    /\ watches = 0 /\ polls = 0

Polling(p) == {c \in calls \cap Polled : c.proxy = p} # {}

-----------------------------------------------------------------------------
(* The page.                                                               *)

\* DELETE for what is watched, if anything is.
Forget(p) == IF p = None THEN {} ELSE {[forget |-> p]}
ForgetVars(p) ==
    /\ calls' = calls \cup Forget(p)
    /\ excused' = IF p # None /\ Polling(p) THEN excused \cup {p} ELSE excused

\* startLiveLog, with the first poll.
Start(p) ==
    /\ here /\ idle /\ watches < MaxWatches /\ polls < MaxPolls
    /\ watches' = watches + 1 /\ polls' = polls + 1
    /\ calls' = calls \cup Forget(IF watched = p THEN None ELSE watched)
                      \cup {[poll |-> polls', proxy |-> p, watch |-> watches']}
    /\ watched' = p /\ table' = {} /\ idle' = FALSE
    /\ interval' = watches' /\ timers' = timers \cup {watches'}
    /\ UNCHANGED <<here, answers, live, excused>>

\* fetchLiveLog: away from the page its fields are missing, and it throws.
Tick(t) ==
    /\ t \in timers /\ watched # None /\ here
    /\ polls < MaxPolls /\ polls' = polls + 1
    /\ calls' = calls \cup {[poll |-> polls', proxy |-> watched, watch |-> watches]}
    /\ UNCHANGED <<pageVars, table, answers, live, excused>>

\* (Mutant: the proxy to forget is read after it is cleared.)
StopLiveLog_ForgetsLate ==
    /\ timers' = timers \ {interval} /\ interval' = 0
    /\ watched' = None /\ idle' = TRUE
    /\ ForgetVars(watched')

\* stopLiveLog
StopLiveLog ==
    /\ timers' = timers \ {interval} /\ interval' = 0
    /\ ForgetVars(watched)
    /\ watched' = None /\ idle' = TRUE

Stop ==
    /\ here /\ ~idle
    /\ StopLiveLog
    /\ UNCHANGED <<here, table, answers, live, watches, polls>>

Leave ==
    /\ here /\ here' = FALSE
    /\ UNCHANGED <<watched, interval, timers, idle, watches, table, calls, answers,
                   live, polls, excused>>

\* pjax:complete on fresh content: whatever was watched is stopped.
Return ==
    /\ ~here /\ here' = TRUE /\ table' = {}
    /\ StopLiveLog
    /\ UNCHANGED <<answers, live, watches, polls>>

\* A new document: the page forgets, and nothing tells the server.
Reload ==
    /\ here' = TRUE /\ idle' = TRUE /\ watched' = None /\ interval' = 0 /\ timers' = {}
    /\ table' = {} /\ answers' = {}
    /\ excused' = excused \cup ({watched} \ {None})
    /\ UNCHANGED <<calls, live, watches, polls>>

\* The rows are appended unasked, whatever is watched by now.
Hear(w) ==
    /\ w \in answers /\ answers' = answers \ {w}
    /\ table' = IF here THEN table \cup {w} ELSE table
    /\ UNCHANGED <<pageVars, calls, live, polls, excused>>

-----------------------------------------------------------------------------
(* The server and the network.                                             *)

\* A poll, unless ssh fails, leaves an entry.
ServePoll(c) ==
    /\ c \in calls \cap Polled /\ calls' = calls \ {c}
    /\ \/ live' = live \cup {c.proxy} /\ answers' = answers \cup {c.watch}
       \/ UNCHANGED <<live, answers>>
    /\ UNCHANGED <<pageVars, table, polls, excused>>

\* reset_live_log_state
ServeForget(c) ==
    /\ c \in calls \cap Forgets /\ calls' = calls \ {c}
    /\ live' = live \ {c.forget}
    /\ excused' = IF Polling(c.forget) THEN excused ELSE excused \ {c.forget}
    /\ UNCHANGED <<pageVars, table, answers, polls>>

\* A failed DELETE is ignored (catch).
Lose(c) ==
    /\ c \in calls /\ calls' = calls \ {c}
    /\ excused' = IF c \in Forgets THEN excused \cup {c.forget} ELSE excused
    /\ UNCHANGED <<pageVars, table, answers, live, polls>>

Next ==
    \/ \E p \in Proxies : Start(p)
    \/ \E t \in Watches : Tick(t) \/ Hear(t)
    \/ Stop \/ Leave \/ Return \/ Reload
    \/ \E c \in calls : ServePoll(c) \/ ServeForget(c) \/ Lose(c)

Spec == Init /\ [][Next]_vars

-----------------------------------------------------------------------------
(***************************************************************************)
(* A watch that ended leaves nothing behind: the server's entry of a proxy *)
(* that is not watched any more is about to go, so that the next watch     *)
(* begins with the last lines again; and no interval runs that the stop    *)
(* button cannot reach.  Excused are entries set by a poll that was on its *)
(* way when the request to forget was sent, lost requests, and documents   *)
(* loaded anew.                                                            *)
(***************************************************************************)
EntriesGo ==
    /\ \A p \in live \ excused : p = watched \/ [forget |-> p] \in calls
    /\ timers \subseteq {interval}
=============================================================================
