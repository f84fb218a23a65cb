------------------------------ MODULE LiveTail ------------------------------
(***************************************************************************)
(* GET /traffic-logs/live/{id} for one proxy: the polls of every browser   *)
(* that watches it share one entry of _live_state, the number of lines     *)
(* seen so far, while each poll brings a search of its own.  A poll runs   *)
(* in a thread, reads the entry, counts the lines of the remote file (wc), *)
(* fetches those after the entry that its search finds (tail, grep) and    *)
(* writes the count back; the proxy goes on logging meanwhile, and may     *)
(* begin a new file.  A search is the keyword (q); what client_ip and      *)
(* url_host then drop of an answer that request does not want either.  The *)
(* remote commands are taken to end within their ten seconds.              *)
(***************************************************************************)
EXTENDS Integers, FiniteSets

CONSTANTS
    Polls,       \* requests in flight together, of any browser, each of a search
    MaxLines,    \* bound on the lines of a file
    MaxFiles,    \* bound on the files the proxy begins
    InitialScan, \* lines a first poll looks at (initial_lines * 10)
    InitialSize, \* lines it returns at most (initial_lines)
    Scan,        \* lines a later poll looks at (2000)
    Limit        \* lines it returns at most (500)

ASSUME SizesAssumption ==
    /\ MaxLines \in Nat /\ MaxFiles \in Nat \ {0}
    /\ {InitialScan, InitialSize, Scan, Limit} \subseteq Nat \ {0}

Unset  == -1
Counts == 0 .. MaxLines
Lines  == 1 .. MaxLines

VARIABLES
    file,      \* the number of the file the proxy logs to
    length,    \* its lines so far
    hits,      \* the polls whose search finds each of its lines
    live,      \* _live_state[proxy_id], or Unset
    pc,        \* where each poll is
    last,      \* the entry a poll has read
    count,     \* the answer of wc
    got,       \* the answer of tail and grep, as line numbers
    passed,    \* history: the lines that answer leaves out, and may
    covered    \* history: the lines of the first file some poll was given, or
               \* looked at and left out

vars == <<file, length, hits, live, pc, last, count, got, passed, covered>>
pollVars == <<last, count, got, passed>>

TypeOK ==
    /\ file \in 1 .. MaxFiles /\ length \in Counts
    /\ hits \in [Lines -> SUBSET Polls]
    /\ live \in Counts \cup {Unset}
    /\ pc \in [Polls -> {"idle", "wc", "tail", "record"}]
    /\ last \in [Polls -> Counts \cup {Unset}]
    /\ count \in [Polls -> Counts]
    /\ got \in [Polls -> SUBSET Lines]
    /\ passed \in [Polls -> SUBSET Lines]
    /\ covered \subseteq Lines

Init ==
    /\ file = 1 /\ length \in Counts /\ live = Unset
    /\ hits \in [Lines -> SUBSET Polls]
    /\ \A k \in Lines : k > length => hits[k] = {}
    /\ pc = [p \in Polls |-> "idle"] /\ last = [p \in Polls |-> Unset]
    /\ count = [p \in Polls |-> 0] /\ got = [p \in Polls |-> {}]
    /\ passed = [p \in Polls |-> {}] /\ covered = {}

-----------------------------------------------------------------------------
(* The proxy.                                                              *)

Log ==
    /\ length < MaxLines
    /\ length' = length + 1
    /\ \E S \in SUBSET Polls : hits' = [hits EXCEPT ![length + 1] = S]
    /\ UNCHANGED <<file, live, pc, pollVars, covered>>

Rotate ==
    /\ file < MaxFiles
    /\ file' = file + 1 /\ length' = 0 /\ hits' = [k \in Lines |-> {}]
    /\ covered' = {}
    /\ UNCHANGED <<live, pc, pollVars>>

-----------------------------------------------------------------------------
(* A poll.                                                                 *)

Goto(p, label) == pc' = [pc EXCEPT ![p] = label]

Start(p) ==
    /\ pc[p] = "idle"
    /\ last' = [last EXCEPT ![p] = live]
    /\ Goto(p, "wc")
    /\ UNCHANGED <<file, length, hits, live, count, got, passed, covered>>

CountLines(p) ==
    /\ pc[p] = "wc"
    /\ count' = [count EXCEPT ![p] = length]
    /\ Goto(p, "tail")
    /\ UNCHANGED <<file, length, hits, live, last, got, passed, covered>>

IsInitial(p) == last[p] = Unset

\* The lines a poll's search finds, and how many of them are newer, or older, than one.
Found(p)       == {k \in 1 .. length : p \in hits[k]}
NewerIn(k, S)  == Cardinality({m \in S : m > k})
OlderIn(k, S)  == Cardinality({m \in S : m < k})
After(n, S)    == {k \in S : k > n}

\* The first line asked for: tail -n +(last + 1).  (Mutant: one too far.)
Offset_TooFar(p) == last[p] + 2
Offset(p) == last[p] + 1

\* tail | grep | tail, or tail | head | grep | head.
Newest(p) ==
    LET scanned == After(length - InitialScan, Found(p))
    IN  {k \in scanned : NewerIn(k, scanned) < InitialSize}
NextOnes(p) ==
    LET scanned == {k \in Found(p) : k >= Offset(p) /\ k < Offset(p) + Scan}
    IN  {k \in scanned : OlderIn(k, scanned) < Limit}

\* What an answer owes nobody: what the search does not find, what a first
\* answer finds too old, and what is beyond the limits of a later one.
TooOld(p) ==
    {k \in 1 .. length : \/ k <= length - InitialScan
                         \/ ~ NewerIn(k, Found(p)) < InitialSize}
TooMany(p) ==
    {k \in 1 .. length : \/ k > last[p] + Scan
                         \/ ~ OlderIn(k, After(last[p], Found(p))) < Limit}
NotFound(p) == 1 .. length \ Found(p)

Tail(p) ==
    /\ pc[p] = "tail"
    /\ \/ /\ IsInitial(p)
          /\ got'    = [got EXCEPT ![p] = Newest(p)]
          /\ passed' = [passed EXCEPT ![p] = TooOld(p) \cup NotFound(p)]
       \/ /\ ~IsInitial(p)
          /\ got'    = [got EXCEPT ![p] = NextOnes(p)]
          /\ passed' = [passed EXCEPT ![p] = After(last[p], TooMany(p) \cup NotFound(p))]
    /\ Goto(p, "record")
    /\ UNCHANGED <<file, length, hits, live, last, count, covered>>

\* The file has grown since the entry was written.  (Mutant: by more than one.)
Grown_MoreThanOne(p) == count[p] > last[p] + 1
Grown(p) == count[p] > last[p]

Answered(p) ==
    /\ Goto(p, "idle")
    /\ last'   = [last EXCEPT ![p] = Unset]
    /\ count'  = [count EXCEPT ![p] = 0]
    /\ got'    = [got EXCEPT ![p] = {}]
    /\ passed' = [passed EXCEPT ![p] = {}]

Record(p) ==
    /\ pc[p] = "record"
    /\ IF IsInitial(p) \/ Grown(p)
       THEN /\ live' = count[p]
            /\ covered' = IF file = 1 THEN covered \cup got[p] \cup passed[p]
                                      ELSE covered
       ELSE UNCHANGED <<live, covered>>
    /\ Answered(p)
    /\ UNCHANGED <<file, length, hits>>

\* ssh_exec raises, or the count cannot be read: 502.
Fail(p) ==
    /\ pc[p] \in {"wc", "tail"}
    /\ Answered(p)
    /\ UNCHANGED <<file, length, hits, live, covered>>

\* DELETE when a watch ends, or cleanup_live_state.
Reset ==
    /\ live # Unset /\ live' = Unset
    /\ UNCHANGED <<file, length, hits, pc, pollVars, covered>>

PollStep(p) == CountLines(p) \/ Tail(p) \/ Record(p) \/ Fail(p)

Next == Log \/ Rotate \/ Reset \/ \E p \in Polls : Start(p) \/ PollStep(p)

Spec == Init /\ [][Next]_vars

(***************************************************************************)
(* A browser that watches polls at its interval (setInterval), every poll  *)
(* ends (the SSH command has a timeout), and not every one fails.          *)
(***************************************************************************)
FairSpec ==
    /\ Spec
    /\ \A p \in Polls : /\ WF_vars(Start(p)) /\ WF_vars(Record(p))
                        /\ SF_vars(CountLines(p)) /\ SF_vars(Tail(p))

-----------------------------------------------------------------------------

(***************************************************************************)
(* The offset never passes a line nobody looked at: as long as the proxy   *)
(* keeps its file, every line up to _live_state was given to a poll whose  *)
(* search finds it, or was not found by, too old for or beyond the limit   *)
(* of a poll that looked, whatever polls overlap and write their counts    *)
(* back late.  With one search in use, every line it finds was given to    *)
(* somebody or left out by a limit; with several, a line that one of them  *)
(* finds may be passed by a poll of another and never be shown, as the     *)
(* offset is the proxy's and not the search's.                             *)
(***************************************************************************)
OffsetIsCovered ==
    file = 1 /\ live # Unset => \A k \in 1 .. live : k \in covered

(***************************************************************************)
(* While somebody watches, every line of the file comes to be looked at,   *)
(* and with one search in use to be shown if that finds it, or was left    *)
(* out on purpose (get_live_log).                                          *)
(***************************************************************************)
LinesAreShown ==
    \A k \in Lines : (file = 1 /\ k <= length) ~> (k \in covered \/ file # 1)

=============================================================================
