------------------------------ MODULE Watchers ------------------------------
(***************************************************************************)
(* The governance-forum watcher and the issuer-pause watcher: two polling  *)
(* loops that hand what they find to an emitter.  The forums, the issuers, *)
(* the network and the emitter's failures are external.  A loop that has   *)
(* ended, asked to or not, may be run again by whoever owns the watcher;   *)
(* the ids it has seen live with the watcher.                              *)
(***************************************************************************)
EXTENDS Naturals, Sequences, SequencesExt, FiniteSets

CONSTANTS
  Proposals,  \* what gets posted on the forums
  Forum,      \* where: 1 is asked first, then 2
  Risky,      \* those whose text has a risk keyword
  PageSize,   \* a forum answers with the newest so many
  Lookback,   \* and with none that old
  Issuers,    \* how many issuers are probed, in the order 1, 2, ...
  MaxTime,    \* bounds the clock
  MaxStarts   \* bounds the runs of the two loops together

ASSUME WatcherAssumption == /\ IsFiniteSet(Proposals) /\ Forum \in [Proposals -> 1 .. 2]
                            /\ Risky \subseteq Proposals
                            /\ {PageSize, Lookback, Issuers} \subseteq Nat \ {0}
                            /\ {MaxTime, MaxStarts} \subseteq Nat

VARIABLES
  now,
  posted,    \* the proposals, oldest first, each with the time it was posted
  forums,    \* the governance loop
  pauses,    \* the issuer-pause loop
  known,     \* GovernanceForumWatcher._seen_ids
  taken,     \* history: the proposals the emitter took
  halted,    \* the issuers that have paused
  heard      \* history: the issuers told of since they paused

watchersVars == <<now, posted, forums, pauses, known, taken, halted, heard>>

\* at: what the loop does; asks: the source it asks next; found: what this
\* poll has brought; stop: stop() was called; starts: bounds the runs.
Loop(sources, Item) ==
  [at : {"off", "polling", "asleep", "dead"}, asks : 1 .. sources + 1, found : Seq(Item),
   stop : BOOLEAN, starts : 0 .. MaxStarts]

WatchersTypeOK ==
  /\ now \in 0 .. MaxTime
  /\ posted \in Seq([proposal : Proposals, time : 0 .. MaxTime])
  /\ forums \in Loop(2, Risky) /\ pauses \in Loop(Issuers, 1 .. Issuers)
  /\ taken \subseteq known /\ known \subseteq Risky
  /\ heard \subseteq halted /\ halted \subseteq 1 .. Issuers

NotRun == [at |-> "off", asks |-> 1, found |-> <<>>, stop |-> FALSE, starts |-> 0]

WatchersInit == /\ now = 0 /\ posted = <<>> /\ forums = NotRun /\ pauses = NotRun
                /\ known = {} /\ taken = {} /\ halted = {} /\ heard = {}

(***************************************************************************)
(* The world outside.                                                      *)
(***************************************************************************)
IsPosted(p) == \E i \in DOMAIN posted : posted[i].proposal = p

Post(p) == /\ ~IsPosted(p)
           /\ posted' = Append(posted, [proposal |-> p, time |-> now])
           /\ UNCHANGED <<now, forums, pauses, known, taken, halted, heard>>

Halt(i) == /\ i \notin halted
           /\ halted' = halted \cup {i}
           /\ UNCHANGED <<now, posted, forums, pauses, known, taken, heard>>

TimePasses == /\ now < MaxTime
              /\ now' = now + 1
              /\ UNCHANGED <<posted, forums, pauses, known, taken, halted, heard>>

(***************************************************************************)
(* What a loop is.                                                         *)
(***************************************************************************)
Starts(loop) == loop.at \in {"off", "dead"} /\ forums.starts + pauses.starts < MaxStarts

Run(loop) == [NotRun EXCEPT !.at = "polling", !.starts = loop.starts + 1]

Asked(loop, answer) == [loop EXCEPT !.asks = @ + 1, !.found = @ \o answer]

Polled(loop, sources) == loop.at = "polling" /\ loop.asks = sources + 1

\* The batch is emitted without a pause.  An emitter that raises at the n-th of
\* the batch takes the loop with it; stop() is looked at after the batch.
Emitted(loop, batch, n) ==
  [loop EXCEPT !.asks = 1, !.found = <<>>,
               !.at = CASE n < Len(batch) -> "dead"
                        [] n = Len(batch) /\ loop.stop -> "off"
                        [] OTHER -> "asleep"]

Woken(loop) == [loop EXCEPT !.at = IF loop.stop THEN "off" ELSE "polling"]

Running(loop) == loop.at \in {"polling", "asleep"}

(***************************************************************************)
(* GovernanceForumWatcher.                                                 *)
(***************************************************************************)
\* What a forum answers, newest first, and what its poller makes of it.
FirstOf(page) == SubSeq(page, 1, IF Len(page) < PageSize THEN Len(page) ELSE PageSize)

\* The elements of a list that are wanted, in their order.
Only(list, wanted) ==
  LET kept[n \in 0 .. Len(list)] ==
        IF n = 0 THEN <<>>
        ELSE IF list[n] \in wanted THEN Append(kept[n - 1], list[n]) ELSE kept[n - 1]
  IN  kept[Len(list)]

Fresh(f, list) ==
  Only(list, {e \in ToSet(list) : Forum[e.proposal] = f /\ now - e.time < Lookback})

\* An underscored operator is a wrong version of the definition it is named
\* after that the properties must tell apart.
Page_Oldest(f) == FirstOf(Fresh(f, posted))

Page(f) == FirstOf(Fresh(f, Reverse(posted)))

\* A keyword in the title, the text or the name of the space.
Matches(e) == e.proposal \in Risky

Matching(f) == LET page == Only(Page(f), {e \in ToSet(Page(f)) : Matches(e)})
               IN  [i \in DOMAIN page |-> page[i].proposal]

\* A rate limit, an error, a body that does not parse: all read as no proposal.
AskForum ==
  /\ forums.at = "polling" /\ forums.asks <= 2
  /\ \E answer \in {<<>>, Matching(forums.asks)} : forums' = Asked(forums, answer)
  /\ UNCHANGED <<now, posted, pauses, known, taken, halted, heard>>

New == Only(forums.found, ToSet(forums.found) \ known)

Marked_Never == known

\* poll_once marks what it returns before any of it is emitted.
Marked == known \cup ToSet(New)

TellProposals ==
  /\ Polled(forums, 2)
  /\ known' = Marked
  /\ \E n \in 0 .. Len(New) :
       /\ forums' = Emitted(forums, New, n)
       /\ taken' = taken \cup ToSet(SubSeq(New, 1, n))
  /\ UNCHANGED <<now, posted, pauses, halted, heard>>

Watch == /\ \/ Starts(forums) /\ forums' = Run(forums)
            \/ Running(forums) /\ ~forums.stop /\ forums' = [forums EXCEPT !.stop = TRUE]
            \/ forums.at = "asleep" /\ forums' = Woken(forums)
         /\ UNCHANGED <<now, posted, pauses, known, taken, halted, heard>>

(***************************************************************************)
(* StablecoinIssuerPauseSubscriber: the same loop without a memory.        *)
(***************************************************************************)
\* An issuer has halted when its page has the words or its contract is caged.
Reading(i) == IF i \in halted THEN <<i>> ELSE <<>>

\* A probe that fails says nothing.
AskIssuer ==
  /\ pauses.at = "polling" /\ pauses.asks <= Issuers
  /\ \E answer \in {<<>>, Reading(pauses.asks)} :
       pauses' = Asked(pauses, answer)
  /\ UNCHANGED <<now, posted, forums, known, taken, halted, heard>>

TellPauses ==
  /\ Polled(pauses, Issuers)
  /\ \E n \in 0 .. Len(pauses.found) :
       /\ pauses' = Emitted(pauses, pauses.found, n)
       /\ heard' = heard \cup ToSet(SubSeq(pauses.found, 1, n))
  /\ UNCHANGED <<now, posted, forums, known, taken, halted>>

WatchIssuers ==
  /\ \/ Starts(pauses) /\ pauses' = Run(pauses)
     \/ Running(pauses) /\ ~pauses.stop /\ pauses' = [pauses EXCEPT !.stop = TRUE]
     \/ pauses.at = "asleep" /\ pauses' = Woken(pauses)
  /\ UNCHANGED <<now, posted, forums, known, taken, halted, heard>>

(***************************************************************************)
(* Fairness: the event loop resumes a polling loop, and a source that is   *)
(* asked again and again answers at some point.                            *)
(***************************************************************************)
WatchersNext ==
  \/ \E p \in Proposals : Post(p)
  \/ \E i \in 1 .. Issuers : Halt(i)
  \/ TimePasses \/ AskForum \/ TellProposals \/ Watch
  \/ AskIssuer \/ TellPauses \/ WatchIssuers

WatchersSpec == WatchersInit /\ [][WatchersNext]_watchersVars

Wakes == Watch /\ forums.at = "asleep" /\ forums'.at # "asleep"
WakesForIssuers == WatchIssuers /\ pauses.at = "asleep" /\ pauses'.at # "asleep"
ForumAnswers(f) == AskForum /\ forums.asks = f /\ forums' = Asked(forums, Matching(f))
IssuerAnswers(i) == AskIssuer /\ pauses' = Asked(pauses, <<i>>)

Fairness == /\ WF_watchersVars(AskForum) /\ WF_watchersVars(TellProposals) /\ WF_watchersVars(Wakes)
            /\ WF_watchersVars(AskIssuer) /\ WF_watchersVars(TellPauses) /\ WF_watchersVars(WakesForIssuers)
            /\ \A f \in 1 .. 2 : SF_watchersVars(ForumAnswers(f))
            /\ \A i \in 1 .. Issuers : SF_watchersVars(IssuerAnswers(i))

FairWatchersSpec == WatchersSpec /\ Fairness

(***************************************************************************)
(* Properties                                                              *)
(***************************************************************************)
Aged(p) == \E i \in DOMAIN posted : posted[i].proposal = p /\ now - posted[i].time >= Lookback

Crowded(p) ==
  \E i \in DOMAIN posted :
    /\ posted[i].proposal = p
    /\ Cardinality({j \in DOMAIN posted :
                       j > i /\ Forum[posted[j].proposal] = Forum[p]}) >= PageSize

Stopped(loop) == loop.stop \/ ~Running(loop)

PassedBy(p) == forums.starts > 1 /\ p \in known

\* A proposal with a risk keyword is told of, unless the loop stops before, it
\* grows old, newer ones crowd it off the page, or the emission of a batch it
\* was in failed, after which a new run of the loop passes it by (run marks
\* before it emits).  A halt is told of unless the loop stops: its loop has no
\* memory to lose it in.
EventuallyTold ==
  /\ \A p \in Risky :
       IsPosted(p) ~> (p \in taken \/ Stopped(forums) \/ Aged(p) \/ Crowded(p) \/ PassedBy(p))
  /\ \A i \in 1 .. Issuers : (i \in halted) ~> (i \in heard \/ Stopped(pauses))
=============================================================================
