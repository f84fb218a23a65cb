--------------------------- MODULE CollectorFeed ---------------------------
(***************************************************************************)
(* BackgroundCollector seen from the web sockets.  Two observers watch its *)
(* steps and change none of them: the last status broadcast for each id,   *)
(* and for each client the ids it believes are running, from the           *)
(* initial_status it got and the messages delivered to it since.           *)
(***************************************************************************)
EXTENDS BackgroundCollector

VARIABLES
    feed,   \* the last status broadcast for each id
    view    \* the ids each client believes are running

feedVars == <<vars, feed, view>>

\* The coroutine whose broadcast begins in this step, if any.
Beginning == {p \in Workers : pc[p] = "cast" /\ pc'[p] = "send"}

ObserveFeed ==
    feed' = [t \in TaskIds |->
               IF \E p \in Beginning : tid[p] = t
               THEN msg[CHOOSE p \in Beginning : tid[p] = t] ELSE feed[t]]

\* What a client makes of a message about id t.
Told(ids, t, m) == IF m = "stopped" THEN ids \ {t} ELSE ids \cup {t}

Delivered(c) == c \in unsent /\ c \notin unsent' /\ c \notin failed'
Sender == CHOOSE p \in Workers : pc[p] = "send"

ObserveView ==
    view' = [c \in Clients |->
               CASE c \in clients' \ clients -> RunningIds
                 [] c \in clients \ clients' -> {}
                 [] Delivered(c) -> Told(view[c], tid[Sender], msg[Sender])
                 [] OTHER -> view[c]]

FeedInit ==
    /\ Init
    /\ feed = [t \in TaskIds |-> IF running[t] # Nobody THEN "started" ELSE "stopped"]
    /\ view = [c \in Clients |-> {}]

FeedNext == Next /\ ObserveFeed /\ ObserveView

FeedSpec == FeedInit /\ [][FeedNext]_feedVars

-----------------------------------------------------------------------------

Promise == INSTANCE CollectionFeed WITH Ids <- TaskIds

(***************************************************************************)
(* The broadcasts of each id follow the promised life cycle: the order in  *)
(* which "started" and "stopped" are sent is the order in which the tasks  *)
(* table changed, and a stopped collector is not heard of again, though    *)
(* table and broadcast are two separate holds of _lock.                    *)
(***************************************************************************)
KeepsPromise == Promise!Spec

(***************************************************************************)
(* No client is left with a wrong picture: when no broadcast of "started"  *)
(* or "stopped" is under way, what each registered client was told to be   *)
(* running is what is running, whenever it connected.                      *)
(***************************************************************************)
NewsUnderWay ==
    \E h \in Handlers : pc[h] \in {"cast", "send"}
ClientsKnowWhatRuns ==
    ~NewsUnderWay => \A c \in clients : view[c] = RunningIds
=============================================================================
