--------------------------- MODULE ExtractorProofs ---------------------------
(***************************************************************************)
(* Proofs about the rolling extractor: its episodes (RollingEpisode), for  *)
(* any number of processes, workers, slices and calls, every               *)
(* configuration, token limit and run limit; and its lifecycle             *)
(* (ExtractorLifecycle), for any numbers of extractions, background calls  *)
(* and waiters.                                                            *)
(***************************************************************************)
EXTENDS RollingEpisode, ExtractorLifecycle, CommonLemmas, FiniteSetTheorems, SequenceTheorems, TLAPS

-----------------------------------------------------------------------------
(* The inductive invariant.  Its parts take the stored episode, the log and *)
(* the slices saved before it as parameters, since they compare copies made *)
(* at different times with what is stored now.                              *)

SavedRuns == UNION {[D -> [answer : Answers, ordinal : Nat]] : D \in SUBSET Slices}

Episode ==
    [version : Nat, release : Releases \cup {"none"}, messages : Seq(Message),
     content : SUBSET Message, dropped : SUBSET Message, tokens : Nat,
     eventCount : Nat, runs : SavedRuns, cursors : [Streams -> Nat]]

OrdinalsOK(ep) == \A s \in DOMAIN ep.runs : ep.runs[s].ordinal \in 1 .. ep.eventCount

BusyWorker ==
    [pc : {"acquire", "load", "prepare", "recompute", "bound", "call"}, slice : Slices,
     attempt : {1, 2}, ep : Episode, reset : BOOLEAN]

Flight ==
    {NoFlight}
      \cup [state : {"running"}, base : Seq(Message), content : SUBSET Message]
      \cup [state : {"done"}, ok : BOOLEAN, base : Seq(Message), content : SUBSET Message]

Summary ==
    {NoFlight}
      \cup [state : {"running"}, base : Seq(Message), content : SUBSET Message]
      \cup [state : {"computed"}, ok : BOOLEAN, base : Seq(Message), content : SUBSET Message]
      \cup [state : {"persist"}, ep : Episode]
      \cup [state : {"persisted", "done"},
            persistErr : {"none", "conflict", "error", "interrupted"}]

\* The types, with those that TypeOK leaves out.
Types ==
    /\ store \in Episode /\ OrdinalsOK(store)
    /\ conf \in [Procs -> Configs]
    /\ lease \in [Procs -> Workers \cup {Nobody, Summariser}]
    /\ worker \in [Procs -> [Workers -> {IdleWorker} \cup BusyWorker]]
    /\ flight \in [Procs -> Flight]
    /\ summary \in [Procs -> Summary]
    /\ log \in Seq(Run) /\ past \subseteq Slices
    /\ extracts \in 0 .. MaxExtracts /\ faults \in 0 .. MaxFaults

\* A busy worker's copy has ordinals of its own events.
CopyOrdinals(k) == k.pc # "idle" => OrdinalsOK(k.ep)

\* The lease has exactly the holder that works on the episode.
LeaseOK ==
    /\ \A p \in Procs, w \in Workers : Holds(p, w) <=> lease[p] = w
    /\ \A p \in Procs : summary[p].state = "persist" <=> lease[p] = Summariser

\* The i-th message that the runs of L appended.
Entry(L, i) ==
    IF i % 2 = 1 THEN Prompt(L[(i + 1) \div 2].slice)
                 ELSE Response(L[(i + 1) \div 2].slice, L[(i + 1) \div 2].answer)

\* ms is the newest part of what the runs of L appended.
TailOf(ms, L) ==
    /\ Len(ms) <= 2 * Len(L)
    /\ \A i \in 1 .. Len(ms) : ms[i] = Entry(L, 2 * Len(L) - Len(ms) + i)

Window(L) == {i \in DOMAIN L : i > Len(L) - RunLimit}

\* The cached runs are those of the last RunLimit entries of L, younger ones
\* with higher ordinals.
RunsFit(ep, L) ==
    /\ DOMAIN ep.runs = {L[i].slice : i \in Window(L)}
    /\ \A i \in Window(L) : ep.runs[L[i].slice].answer = L[i].answer
    /\ \A i, j \in Window(L) :
         i < j => ep.runs[L[i].slice].ordinal < ep.runs[L[j].slice].ordinal

CursorsFit(cursors, L) ==
    \A st \in Streams :
        /\ \/ cursors[st] = 0
           \/ \E i \in DOMAIN L : StreamOf[L[i].slice] = st /\ cursors[st] = ToSequence[L[i].slice]
        /\ \A i \in DOMAIN L :
             StreamOf[L[i].slice] = st => ToSequence[L[i].slice] <= cursors[st]

\* Nothing of L has left the episode unrecorded.
Covered(ep, L) ==
    \A i \in 1 .. 2 * Len(L) :
        Entry(L, i) \in MessagesOf(ep.messages) \cup ep.content \cup ep.dropped

Unrepeated(L, P) ==
    /\ \A i, j \in DOMAIN L : L[i].slice = L[j].slice => i = j
    /\ \A i \in DOMAIN L : L[i].slice \notin P

\* Episode ep is what the runs of L made of it.
Fits(ep, L, P) ==
    /\ TailOf(ep.messages, L)
    /\ RunsFit(ep, L)
    /\ CursorsFit(ep.cursors, L)
    /\ Unrepeated(L, P) => Covered(ep, L)

\* What a background call was shown: its checkpoint has the base and, if the
\* base is in the transcript, everything before it that was not dropped (D).
Snapshot(base, content, L, P, D) ==
    /\ base # <<>>
    /\ MessagesOf(base) \subseteq content
    /\ base[1].slice \in SlicesOf(L) \cup P
    /\ Unrepeated(L, P) =>
         \A n \in 1 .. 2 * Len(L) :
             Entry(L, n) = base[1] => \A i \in 1 .. n - 1 : Entry(L, i) \in content \cup D

\* A copy that a worker made is not ahead of the stored episode st; if it can
\* still be saved, it is what the log, or a reset, makes of the episode.
CopyOK(k, st, L, P) ==
    k.pc \in {"prepare", "recompute", "bound", "call"} =>
        /\ k.ep.version <= st.version
        /\ k.slice \notin DOMAIN k.ep.runs
        /\ k.reset => k.ep.messages = <<>>
        /\ k.ep.version = st.version => Fits(k.ep, IF k.reset THEN <<>> ELSE L, P)
        /\ k.ep.version = st.version /\ ~ k.reset => st.dropped \subseteq k.ep.dropped
        /\ k.pc = "recompute" => k.ep.messages # <<>>
        /\ k.pc = "prepare" /\ k.ep.messages # <<>> =>
             Snapshot(k.ep.messages, k.ep.content \cup MessagesOf(k.ep.messages), L, P, st.dropped)

FlightOK(f, L, P, D) ==
    f.state \in {"running", "done"} => Snapshot(f.base, f.content, L, P, D)

SummaryOK(f, st, L, P) ==
    /\ f.state \in {"running", "computed"} => Snapshot(f.base, f.content, L, P, st.dropped)
    /\ f.state = "persist" =>
         /\ OrdinalsOK(f.ep)
         /\ f.ep.version <= st.version
         /\ f.ep.version = st.version => Fits(f.ep, L, P) /\ st.dropped \subseteq f.ep.dropped

EpisodeInv ==
    /\ Types /\ LeaseOK
    /\ AppendedOnce
    /\ Fits(store, log, past)
    /\ \A p \in Procs, w \in Workers :
         CopyOrdinals(worker[p][w]) /\ CopyOK(worker[p][w], store, log, past)
    /\ \A p \in Procs : FlightOK(flight[p], log, past, store.dropped)
    /\ \A p \in Procs : SummaryOK(summary[p], store, log, past)
-----------------------------------------------------------------------------
(* The transcript of a log *)

\* A message of the transcript belongs to one of the log's runs.
LEMMA EntryType ==
    ASSUME NEW L \in Seq(Run), NEW i \in 1 .. 2 * Len(L)
    PROVE  Entry(L, i) \in Message /\ \E j \in DOMAIN L : Entry(L, i).slice = L[j].slice
<1> DEFINE j == (i + 1) \div 2
<1>1. j \in DOMAIN L
  OBVIOUS
<1>2. L[j] \in Run
  BY <1>1
<1>3. L[j].slice \in Slices /\ L[j].answer \in Answers
  BY <1>2 DEF Run
<1>4. Entry(L, i) = Prompt(L[j].slice) \/ Entry(L, i) = Response(L[j].slice, L[j].answer)
  BY Zenon DEF Entry
<1> HIDE DEF j
<1> QED
  BY <1>1, <1>3, <1>4 DEF Prompt, Response, Message

\* A further run leaves the transcript as it is and adds a prompt and an answer.
LEMMA EntryAppend ==
    ASSUME NEW L \in Seq(Run), NEW r \in Run
    PROVE  /\ Append(L, r) \in Seq(Run) /\ Len(Append(L, r)) = Len(L) + 1
           /\ \A i \in 1 .. 2 * Len(L) : Entry(Append(L, r), i) = Entry(L, i)
           /\ Entry(Append(L, r), 2 * Len(L) + 1) = Prompt(r.slice)
           /\ Entry(Append(L, r), 2 * Len(L) + 2) = Response(r.slice, r.answer)
<1> DEFINE M == Append(L, r)
           n == Len(L)
<1>1. M \in Seq(Run) /\ Len(M) = n + 1 /\ M[n + 1] = r /\ \A j \in 1 .. n : M[j] = L[j]
  OBVIOUS
<1>2. n \in Nat
  OBVIOUS
<1> HIDE DEF M, n
<1>3. ASSUME NEW i \in 1 .. 2 * n PROVE Entry(M, i) = Entry(L, i)
  <2>1. (i + 1) \div 2 \in 1 .. n
    BY <1>2
  <2> QED
    BY <2>1, <1>1 DEF Entry
<1>4. (2 * n + 1 + 1) \div 2 = n + 1 /\ (2 * n + 1) % 2 = 1
  BY <1>2
<1>5. (2 * n + 2 + 1) \div 2 = n + 1 /\ (2 * n + 2) % 2 # 1
  BY <1>2
<1>6. Entry(M, 2 * n + 1) = Prompt(r.slice)
  BY <1>1, <1>4 DEF Entry
<1>7. Entry(M, 2 * n + 2) = Response(r.slice, r.answer)
  BY <1>1, <1>5 DEF Entry
<1> QED
  BY <1>1, <1>3, <1>6, <1>7 DEF M, n

\* The stored form of the transcript.
LEMMA TranscriptEntries ==
    ASSUME log \in Seq(Run)
    PROVE  /\ Transcript \in Seq(Message) /\ Len(Transcript) = 2 * Len(log)
           /\ \A i \in 1 .. 2 * Len(log) : Transcript[i] = Entry(log, i)
<1>1. Transcript = [i \in 1 .. 2 * Len(log) |-> Entry(log, i)]
  BY DEF Transcript, Entry
<1>2. \A i \in 1 .. 2 * Len(log) : Entry(log, i) \in Message
  BY EntryType
<1>3. 2 * Len(log) \in Nat
  OBVIOUS
<1> QED
  BY <1>1, <1>2, <1>3
-----------------------------------------------------------------------------
(* Cutting off the oldest messages *)

\* The length and the elements of a suffix.
LEMMA SuffixFacts ==
    ASSUME NEW ms \in Seq(Message), NEW k \in 1 .. Len(ms) + 1
    PROVE  /\ Suffix(ms, k) \in Seq(Message)
           /\ Len(Suffix(ms, k)) = Len(ms) - k + 1
           /\ \A i \in 1 .. Len(ms) - k + 1 : Suffix(ms, k)[i] = ms[k + i - 1]
<1>1. \A i \in k .. Len(ms) : ms[i] \in Message
  OBVIOUS
<1>2. k \in Int /\ Len(ms) \in Int
  OBVIOUS
<1> QED
  BY <1>1, <1>2, SubSeqProperties DEF Suffix

\* recentMessageTail returns a suffix, and never an empty one of something.
LEMMA RecentTailIsSuffix ==
    ASSUME NEW ms \in Seq(Message), NEW budget
    PROVE  /\ ms = <<>> => RecentMessageTail(ms, budget) = <<>>
           /\ ms # <<>> => \E k \in DOMAIN ms : RecentMessageTail(ms, budget) = Suffix(ms, k)
<1> DEFINE starts == {i \in DOMAIN ms : ~ ( /\ ms[i].role = "assistant" /\ i > 1
                                            /\ ms[i - 1].role = "user" )}
           fits == {i \in starts : Len(Suffix(ms, i)) <= budget}
           last == CHOOSE i \in starts : \A j \in starts : j <= i
           first == CHOOSE i \in fits : \A j \in fits : i <= j
<1>1. RecentMessageTail(ms, budget) =
        IF ms = <<>> THEN <<>>
        ELSE IF fits = {} THEN Suffix(ms, last) ELSE Suffix(ms, first)
  BY DEF RecentMessageTail
<1>2. ASSUME ms # <<>> PROVE last \in DOMAIN ms
  <2>1. 1 \in starts
    BY <1>2
  <2>2. starts \in SUBSET (0 .. Len(ms)) /\ Len(ms) \in Nat
    OBVIOUS
  <2>3. \E i \in starts : \A j \in starts : j <= i
    <3> HIDE DEF starts
    <3> QED
      BY <2>1, <2>2, GreatestNat
  <2>4. last \in starts
    <3> HIDE DEF starts
    <3> QED
      BY <2>3
  <2> QED
    BY <2>4
<1>3. ASSUME fits # {} PROVE first \in DOMAIN ms
  <2>1. fits \in SUBSET Nat
    OBVIOUS
  <2>2. \E i \in fits : \A j \in fits : i <= j
    <3> HIDE DEF fits
    <3> QED
      BY <1>3, <2>1, LeastNat
  <2>3. first \in fits
    <3> HIDE DEF fits
    <3> QED
      BY <2>2
  <2> QED
    BY <2>3
<1> HIDE DEF starts, fits, last, first
<1> QED
  BY <1>1, <1>2, <1>3

\* Episode ep2 is ep without its first k - 1 messages, with its runs and cursors.
CutAt(ep2, ep, k) ==
    /\ ep2 \in Episode
    /\ ep2.version = ep.version /\ ep2.eventCount = ep.eventCount
    /\ ep2.runs = ep.runs /\ ep2.cursors = ep.cursors
    /\ k \in 1 .. Len(ep.messages) + 1
    /\ ep2.messages = Suffix(ep.messages, k)

\* A cut keeps everything but the coverage, which depends on the checkpoint.
LEMMA CutFits ==
    ASSUME NEW ep \in Episode, NEW ep2, NEW k, NEW L \in Seq(Run), NEW P,
           CutAt(ep2, ep, k), Fits(ep, L, P), Unrepeated(L, P) => Covered(ep2, L)
    PROVE  Fits(ep2, L, P)
<1>1. ep.messages \in Seq(Message) /\ Len(L) \in Nat
  BY DEF Episode
<1>2. k \in 1 .. Len(ep.messages) + 1
  BY DEF CutAt
<1>3. TailOf(ep2.messages, L)
  <2> DEFINE N == 2 * Len(L)
             m == Len(ep.messages)
  <2>1. N \in Nat /\ m \in Nat
    BY <1>1
  <2>2. m <= N /\ \A i \in 1 .. m : ep.messages[i] = Entry(L, N - m + i)
    BY DEF Fits, TailOf
  <2>3. /\ Len(ep2.messages) = m - k + 1
        /\ \A i \in 1 .. m - k + 1 : ep2.messages[i] = ep.messages[k + i - 1]
    BY <1>1, <1>2, SuffixFacts DEF CutAt
  <2> HIDE DEF N, m
  <2>4. ASSUME NEW i \in 1 .. m - k + 1
        PROVE  ep2.messages[i] = Entry(L, N - (m - k + 1) + i)
    <3>1. k + i - 1 \in 1 .. m /\ N - m + (k + i - 1) = N - (m - k + 1) + i
      BY <1>2, <2>1 DEF m
    <3> QED
      BY <2>2, <2>3, <3>1
  <2>5. m - k + 1 <= N
    BY <1>2, <2>1, <2>2 DEF m
  <2> QED
    BY <2>3, <2>4, <2>5 DEF TailOf, N
<1>4. RunsFit(ep2, L)
  BY DEF CutAt, Fits, RunsFit
<1>5. CursorsFit(ep2.cursors, L)
  BY DEF CutAt, Fits
<1> QED
  BY <1>3, <1>4, <1>5 DEF Fits

\* A cut leaves the ordinals of the cached runs alone.
LEMMA CutOrdinals ==
    ASSUME NEW ep, NEW ep2, NEW k, CutAt(ep2, ep, k), OrdinalsOK(ep)
    PROVE  OrdinalsOK(ep2)
  BY DEF CutAt, OrdinalsOK

\* What is cut off deliberately is recorded.
LEMMA DropCovers ==
    ASSUME NEW ep, NEW ep2, NEW L, Covered(ep, L), ep2.content = ep.content,
           ep2.dropped = ep.dropped \cup (MessagesOf(ep.messages) \ MessagesOf(ep2.messages))
    PROVE  Covered(ep2, L)
  BY DEF Covered

\* A checkpoint may replace messages of the base it was made from.
LEMMA CheckpointCovers ==
    ASSUME NEW ep \in Episode, NEW ep2, NEW k, NEW L \in Seq(Run), NEW P, NEW D,
           NEW base \in Seq(Message), NEW content,
           Fits(ep, L, P), Unrepeated(L, P), Snapshot(base, content, L, P, D),
           BaseIsPrefix(base, ep.messages), D \subseteq ep.dropped,
           CutAt(ep2, ep, k), k <= Len(base) + 1,
           ep2.content = content, ep2.dropped = ep.dropped
    PROVE  Covered(ep2, L)
<1> DEFINE ms == ep.messages
           N  == 2 * Len(L)
           m  == Len(ms)
           b  == Len(base)
           n  == N - m + 1
<1> SUFFICES ASSUME NEW i \in 1 .. N
             PROVE  Entry(L, i) \in MessagesOf(ep2.messages) \cup content \cup ep.dropped
  BY DEF Covered
<1>1. ms \in Seq(Message) /\ m \in Nat /\ N \in Nat /\ b \in Nat
  BY DEF Episode
<1>2. m <= N /\ \A j \in 1 .. m : ms[j] = Entry(L, N - m + j)
  BY DEF Fits, TailOf
<1>3. base # <<>> /\ MessagesOf(base) \subseteq content
  BY DEF Snapshot
<1>4. b >= 1 /\ DOMAIN base = 1 .. b
  BY <1>3
<1>5. b <= m /\ \A j \in 1 .. b : ms[j] = base[j]
  <2>1. b <= m /\ SubSeq(ms, 1, b) = base
    BY DEF BaseIsPrefix
  <2>2. \A j \in 1 .. b : ms[j] \in Message
    BY <1>1, <2>1
  <2>3. \A j \in 1 .. b : SubSeq(ms, 1, b)[j] = ms[j]
    BY <1>1, <2>2, SubSeqProperties
  <2> QED
    BY <2>1, <2>3
<1>6. k \in 1 .. m + 1 /\ k <= b + 1 /\ ep2.messages = Suffix(ms, k)
  BY DEF CutAt
<1>7. /\ DOMAIN Suffix(ms, k) = 1 .. m - k + 1
      /\ \A j \in 1 .. m - k + 1 : Suffix(ms, k)[j] = ms[k + j - 1]
  <2>1. /\ Suffix(ms, k) \in Seq(Message) /\ Len(Suffix(ms, k)) = m - k + 1
        /\ \A j \in 1 .. m - k + 1 : Suffix(ms, k)[j] = ms[k + j - 1]
    BY <1>1, <1>6, SuffixFacts
  <2> QED
    BY <2>1, LenProperties
<1>8. Entry(L, n) = base[1] /\ n \in 1 .. N => \A j \in 1 .. n - 1 : Entry(L, j) \in content \cup D
  BY DEF Snapshot
<1> HIDE DEF ms, N, m, b
<1>9. CASE i < n
  <2>1. n \in 1 .. N /\ 1 \in 1 .. m /\ 1 \in 1 .. b /\ N - m + 1 = n
    BY <1>1, <1>2, <1>4, <1>5
  <2>2. Entry(L, n) = base[1]
    BY <1>2, <1>5, <2>1
  <2>3. i \in 1 .. n - 1
    BY <1>1, <1>9
  <2> HIDE DEF n
  <2> QED
    BY <1>8, <2>1, <2>2, <2>3
<1>10. CASE i >= n
  <2> DEFINE j == i - n + 1
  <2>1. j \in 1 .. m /\ N - m + j = i
    BY <1>1, <1>10
  <2>2. Entry(L, i) = ms[j]
    BY <1>2, <2>1
  <2> HIDE DEF j, n
  <2>3. CASE j < k
    <3>1. j \in 1 .. b
      BY <1>1, <1>6, <2>1, <2>3
    <3> QED
      BY <1>3, <1>4, <1>5, <2>2, <3>1 DEF MessagesOf
  <2>4. CASE j >= k
    <3>1. j - k + 1 \in 1 .. m - k + 1 /\ k + (j - k + 1) - 1 = j
      BY <1>1, <1>6, <2>1, <2>4
    <3>2. Suffix(ms, k)[j - k + 1] = ms[j]
      BY <1>7, <3>1
    <3> QED
      BY <1>6, <1>7, <2>2, <3>1, <3>2 DEF MessagesOf
  <2> QED
    BY <1>1, <1>6, <2>1, <2>3, <2>4
<1> QED
  BY <1>1, <1>9, <1>10
-----------------------------------------------------------------------------
(* What the operations on an episode return *)

\* Token estimates are natural numbers.
LEMMA EstimateType ==
    ASSUME NEW content, NEW ms \in Seq(Message)
    PROVE  EstimateEpisodeTokens(content, ms) \in Nat
  BY DEF EstimateEpisodeTokens, CheckpointTokens

\* An installed compaction.
LEMMA CompactionCuts ==
    ASSUME NEW ep \in Episode, NEW f, f.base \in Seq(Message), f.content \in SUBSET Message,
           BaseIsPrefix(f.base, ep.messages)
    PROVE  /\ CutAt(ApplyCompaction(ep, f), ep, Len(f.base) + 1)
           /\ ApplyCompaction(ep, f).content = f.content
           /\ ApplyCompaction(ep, f).dropped = ep.dropped
<1> DEFINE tail == Suffix(ep.messages, Len(f.base) + 1)
           tok  == EstimateEpisodeTokens(f.content, tail)
<1>1. ep.messages \in Seq(Message)
  BY DEF Episode
<1>2. Len(f.base) + 1 \in 1 .. Len(ep.messages) + 1
  BY <1>1 DEF BaseIsPrefix
<1>3. tail \in Seq(Message)
  BY <1>1, <1>2, SuffixFacts
<1>4. tok \in Nat
  BY <1>3, EstimateType
<1>5. ApplyCompaction(ep, f) =
        [ep EXCEPT !.messages = tail, !.content = f.content, !.tokens = tok]
  BY DEF ApplyCompaction
<1>6. tail = Suffix(ep.messages, Len(f.base) + 1)
  OBVIOUS
<1> HIDE DEF tail, tok
<1>7. ApplyCompaction(ep, f) \in Episode
  BY <1>3, <1>4, <1>5 DEF Episode
<1> QED
  BY <1>2, <1>5, <1>6, <1>7 DEF CutAt, Episode

\* An installed periodic summary keeps a suffix that starts inside the base.
LEMMA SummaryCuts ==
    ASSUME NEW ep \in Episode, NEW f, f.base \in Seq(Message), f.content \in SUBSET Message,
           f.base # <<>>, BaseIsPrefix(f.base, ep.messages)
    PROVE  /\ \E k \in 1 .. Len(f.base) : CutAt(ApplyPeriodicSummary(ep, f), ep, k)
           /\ ApplyPeriodicSummary(ep, f).content = f.content
           /\ ApplyPeriodicSummary(ep, f).dropped = ep.dropped
<1> DEFINE ms   == ep.messages
           b    == Len(f.base)
           head == SubSeq(ms, 1, b)
           rest == Suffix(ms, b + 1)
           kept == RecentMessageTail(head, SummaryTailTokens)
           all  == kept \o rest
           tok  == EstimateEpisodeTokens(f.content, all)
<1>1. ms \in Seq(Message) /\ Len(ms) \in Nat
  BY DEF Episode
<1>2. b \in Nat /\ b >= 1 /\ b <= Len(ms) /\ head = f.base
  BY DEF BaseIsPrefix
<1>3. PICK k \in 1 .. b : kept = Suffix(f.base, k)
  <2>1. DOMAIN f.base = 1 .. b
    OBVIOUS
  <2> QED
    BY <1>2, <2>1, RecentTailIsSuffix
<1>4. all = Suffix(ms, k)
  <2>1. Suffix(f.base, k) = SubSeq(ms, k, b)
    <3>1. \A i \in k .. b : f.base[i] = ms[i]
      <4>1. \A i \in 1 .. b : ms[i] \in Message
        BY <1>1, <1>2
      <4>2. \A i \in 1 .. b : head[i] = ms[i]
        BY <1>2, <4>1, SubSeqProperties
      <4> QED
        BY <1>2, <4>2
    <3>2. \A i \in k .. b : f.base[i] \in Message /\ ms[i] \in Message
      BY <1>1, <1>2
    <3>3. /\ Suffix(f.base, k) \in Seq(Message) /\ Len(Suffix(f.base, k)) = b - k + 1
          /\ \A i \in 1 .. b - k + 1 : Suffix(f.base, k)[i] = f.base[k + i - 1]
      <4>1. k \in 1 .. Len(f.base) + 1
        BY <1>2
      <4> QED
        BY <4>1, SuffixFacts
    <3>4. /\ SubSeq(ms, k, b) \in Seq(Message) /\ Len(SubSeq(ms, k, b)) = b - k + 1
          /\ \A i \in 1 .. b - k + 1 : SubSeq(ms, k, b)[i] = ms[k + i - 1]
      BY <1>2, <3>2, SubSeqProperties
    <3> HIDE DEF ms, b, head
    <3>5. \A i \in 1 .. b - k + 1 : k + i - 1 \in k .. b
      BY <1>2
    <3>6. \A i \in 1 .. b - k + 1 : Suffix(f.base, k)[i] = SubSeq(ms, k, b)[i]
      BY <3>1, <3>3, <3>4, <3>5
    <3> QED
      BY <3>3, <3>4, <3>6, SeqEqual
  <2>2. k \in 1 .. Len(ms) + 1 /\ b \in k - 1 .. Len(ms) /\ Len(ms) \in b .. Len(ms)
    BY <1>1, <1>2
  <2>3. SubSeq(ms, k, b) \o SubSeq(ms, b + 1, Len(ms)) = SubSeq(ms, k, Len(ms))
    BY <1>1, <2>2, ConcatAdjacentSubSeq
  <2> QED
    BY <1>3, <2>1, <2>3 DEF Suffix
<1>5. k \in 1 .. Len(ms) + 1
  BY <1>1, <1>2
<1>6. all \in Seq(Message)
  BY <1>1, <1>4, <1>5, SuffixFacts
<1>7. tok \in Nat
  BY <1>6, EstimateType
<1>8. ApplyPeriodicSummary(ep, f) =
        [ep EXCEPT !.messages = all, !.content = f.content, !.tokens = tok]
  BY DEF ApplyPeriodicSummary
<1> HIDE DEF all, tok
<1>9. ApplyPeriodicSummary(ep, f) \in Episode
  BY <1>6, <1>7, <1>8 DEF Episode
<1>10. CutAt(ApplyPeriodicSummary(ep, f), ep, k)
  BY <1>4, <1>5, <1>8, <1>9 DEF CutAt, Episode
<1> QED
  BY <1>8, <1>10 DEF Episode

\* Cutting off messages and recording them as dropped.
LEMMA DropCuts ==
    ASSUME NEW ep \in Episode, NEW k \in 1 .. Len(ep.messages) + 1, NEW ep2,
           ep2 = [ep EXCEPT !.messages = Suffix(ep.messages, k),
                    !.dropped = @ \cup (MessagesOf(ep.messages)
                                          \ MessagesOf(Suffix(ep.messages, k))),
                    !.tokens = EstimateEpisodeTokens(ep.content, Suffix(ep.messages, k))]
    PROVE  /\ CutAt(ep2, ep, k)
           /\ ep2.content = ep.content
           /\ ep2.dropped = ep.dropped \cup (MessagesOf(ep.messages) \ MessagesOf(ep2.messages))
<1> DEFINE kept == Suffix(ep.messages, k)
           gone == ep.dropped \cup (MessagesOf(ep.messages) \ MessagesOf(kept))
           tok  == EstimateEpisodeTokens(ep.content, kept)
<1>1. ep.messages \in Seq(Message)
  BY DEF Episode
<1>2. kept \in Seq(Message)
  BY <1>1, SuffixFacts
<1>3. tok \in Nat
  BY <1>2, EstimateType
<1>4. gone \in SUBSET Message
  BY <1>1 DEF Episode, MessagesOf
<1>5. ep2 = [ep EXCEPT !.messages = kept, !.dropped = gone, !.tokens = tok]
  OBVIOUS
<1>6. /\ kept = Suffix(ep.messages, k)
      /\ gone = ep.dropped \cup (MessagesOf(ep.messages) \ MessagesOf(kept))
  OBVIOUS
<1> HIDE DEF kept, gone, tok
<1>7. ep2 \in Episode
  BY <1>2, <1>3, <1>4, <1>5 DEF Episode
<1>8. ep2.messages = kept /\ ep2.dropped = gone /\ ep2.content = ep.content
  BY <1>5 DEF Episode
<1>9. CutAt(ep2, ep, k)
  BY <1>5, <1>6, <1>7 DEF CutAt, Episode
<1> QED
  BY <1>6, <1>8, <1>9

\* truncateEpisodeMessages cuts off a prefix.
LEMMA TruncateCuts ==
    ASSUME NEW ep \in Episode, ep.messages # <<>>
    PROVE  LET ep2 == TruncateEpisodeMessages(ep)
           IN /\ \E k \in 1 .. Len(ep.messages) + 1 : CutAt(ep2, ep, k)
              /\ ep2.content = ep.content
              /\ ep2.dropped = ep.dropped \cup (MessagesOf(ep.messages) \ MessagesOf(ep2.messages))
<1> DEFINE fits == {i \in DOMAIN ep.messages :
                      \/ i = Len(ep.messages)
                      \/ EstimateEpisodeTokens(ep.content, Suffix(ep.messages, i))
                           < CompactStartTokens}
           k    == CHOOSE i \in fits : \A j \in fits : i <= j
<1>1. ep.messages \in Seq(Message)
  BY DEF Episode
<1>2. fits \in SUBSET Nat /\ Len(ep.messages) \in fits
  BY <1>1
<1>3. k \in fits
  <2>1. \E i \in fits : \A j \in fits : i <= j
    <3> HIDE DEF fits
    <3> QED
      BY <1>2, LeastNat
  <2> HIDE DEF fits
  <2> QED
    BY <2>1
<1>4. k \in 1 .. Len(ep.messages) + 1
  <2>1. k \in DOMAIN ep.messages
    BY <1>3
  <2> HIDE DEF k, fits
  <2> QED
    BY <1>1, <2>1
<1>5. TruncateEpisodeMessages(ep) =
        [ep EXCEPT !.messages = Suffix(ep.messages, k),
           !.dropped = @ \cup (MessagesOf(ep.messages) \ MessagesOf(Suffix(ep.messages, k))),
           !.tokens = EstimateEpisodeTokens(ep.content, Suffix(ep.messages, k))]
  BY DEF TruncateEpisodeMessages
<1> HIDE DEF k, fits
<1> QED
  BY <1>4, <1>5, DropCuts
-----------------------------------------------------------------------------
(* Appending a run *)

\* The indexes in the window before the last run was appended, and that run's.
Wider(L) == {i \in DOMAIN L : i > Len(L) - 1 - RunLimit}

\* Pruning keeps the RunLimit youngest runs: with distinct slices whose ordinals
\* grow, entry i has Len(L) - i younger ones.
LEMMA PruneKeepsWindow ==
    ASSUME NEW L \in Seq(Run), NEW runs,
           DOMAIN runs = {L[i].slice : i \in Wider(L)},
           \A i \in Wider(L) : runs[L[i].slice].ordinal \in Nat,
           \A i, j \in Wider(L) :
              i < j => runs[L[i].slice].ordinal < runs[L[j].slice].ordinal
    PROVE  PruneEpisodeRuns(runs) = [s \in {L[i].slice : i \in Window(L)} |-> runs[s]]
<1> DEFINE younger(s) == {t \in DOMAIN runs : runs[t].ordinal > runs[s].ordinal}
           N == Len(L)
           ord(i) == runs[L[i].slice].ordinal
<1>1. N \in Nat /\ RunLimit \in Nat \ {0}
  BY EpisodeAssumption
<1>2. /\ Wider(L) = {i \in 1 .. N : i > N - 1 - RunLimit}
      /\ Window(L) = {i \in 1 .. N : i > N - RunLimit}
      /\ Window(L) \subseteq Wider(L)
  BY <1>1 DEF Wider, Window
<1>3. ASSUME NEW i \in Wider(L)
      PROVE  Cardinality(younger(L[i].slice)) = N - i
  <2> DEFINE S == i + 1 .. N
             Y == younger(L[i].slice)
             g == [j \in S |-> L[j].slice]
  <2>1. i \in 1 .. N /\ S \subseteq Wider(L) /\ \A j \in S : i < j
    BY <1>1, <1>2
  <2>2. \A j \in S : L[j].slice \in Y
    <3> SUFFICES ASSUME NEW j \in S PROVE L[j].slice \in Y
      OBVIOUS
    <3>1. j \in Wider(L) /\ i < j
      BY <2>1
    <3>2. L[j].slice \in DOMAIN runs /\ ord(i) < ord(j) /\ ord(i) \in Nat /\ ord(j) \in Nat
      BY <3>1
    <3> QED
      BY <3>2
  <2>3. \A y \in Y : \E j \in S : L[j].slice = y
    <3> SUFFICES ASSUME NEW y \in Y PROVE \E j \in S : L[j].slice = y
      OBVIOUS
    <3>1. PICK j \in Wider(L) : L[j].slice = y
      OBVIOUS
    <3>2. ord(j) > ord(i) /\ ord(i) \in Nat /\ ord(j) \in Nat
      BY <3>1
    <3>3. ~ (j < i) /\ j # i
      BY <3>2
    <3>4. j \in S
      BY <1>1, <1>2, <2>1, <3>3
    <3> QED
      BY <3>1, <3>4
  <2>4. \A j, l \in S : L[j].slice = L[l].slice => j = l
    <3> SUFFICES ASSUME NEW j \in S, NEW l \in S, j < l, L[j].slice = L[l].slice PROVE FALSE
      BY <2>1
    <3>1. ord(j) < ord(l) /\ ord(j) \in Nat
      BY <2>1
    <3> QED
      BY <3>1
  <2>5. g \in Bijection(S, Y)
    <3> HIDE DEF S, Y
    <3> QED
      BY <2>2, <2>3, <2>4 DEF Bijection, Injection, Surjection, IsInjective
  <2>6. IsFiniteSet(S) /\ Cardinality(S) = N - i
    BY <1>1, <2>1, FS_Interval
  <2> HIDE DEF S, Y, g
  <2>7. Cardinality(Y) = Cardinality(S)
    BY <2>5, <2>6, FS_Bijection DEF ExistsBijection
  <2> QED
    BY <2>6, <2>7 DEF Y
<1>4. {s \in DOMAIN runs : Cardinality(younger(s)) < RunLimit} = {L[i].slice : i \in Window(L)}
  <2> DEFINE card(s) == Cardinality(younger(s))
  <2>1. \A i \in Wider(L) : card(L[i].slice) < RunLimit <=> i \in Window(L)
    <3> SUFFICES ASSUME NEW i \in Wider(L)
                 PROVE  card(L[i].slice) < RunLimit <=> i \in Window(L)
      OBVIOUS
    <3>1. card(L[i].slice) = N - i
      BY <1>3
    <3> HIDE DEF card
    <3> QED
      BY <1>1, <1>2, <3>1
  <2> HIDE DEF card
  <2>2. {s \in DOMAIN runs : card(s) < RunLimit} = {L[i].slice : i \in Window(L)}
    BY <1>2, <2>1
  <2> QED
    BY <2>2 DEF card
<1>5. PruneEpisodeRuns(runs) =
        [s \in {s \in DOMAIN runs : Cardinality(younger(s)) < RunLimit} |-> runs[s]]
  BY DEF PruneEpisodeRuns
<1> HIDE DEF younger
<1> QED
  BY <1>4, <1>5

\* The run cache before pruning.
WithRun(ep, s, a) ==
    [t \in DOMAIN ep.runs \cup {s} |->
       IF t = s THEN [answer |-> a, ordinal |-> ep.eventCount + NewEvents[s]] ELSE ep.runs[t]]

\* The fields of an episode after a successful call of the provider.
LEMMA AppendRunFields ==
    ASSUME NEW ep \in Episode, OrdinalsOK(ep),
           NEW s \in Slices, NEW a \in Answers, NEW u \in Usages
    PROVE  LET ep2 == AppendRun(ep, s, a, u)
           IN /\ ep2 \in Episode /\ OrdinalsOK(ep2)
              /\ ep2.version = ep.version /\ ep2.content = ep.content /\ ep2.dropped = ep.dropped
              /\ ep2.messages = ep.messages \o <<Prompt(s), Response(s, a)>>
              /\ ep2.cursors = UpdateSourceCursor(ep.cursors, s)
              /\ ep2.runs = PruneEpisodeRuns(WithRun(ep, s, a))
<1> DEFINE count == ep.eventCount + NewEvents[s]
           wide  == WithRun(ep, s, a)
           runs  == PruneEpisodeRuns(wide)
           pair  == <<Prompt(s), Response(s, a)>>
           ms    == ep.messages \o pair
           cur   == UpdateSourceCursor(ep.cursors, s)
           ep2   == AppendRun(ep, s, a, u)
<1>1. /\ ep.eventCount \in Nat /\ ep.messages \in Seq(Message) /\ ep.runs \in SavedRuns
      /\ ep.cursors \in [Streams -> Nat]
  BY DEF Episode
<1>2. count \in Nat /\ ep.eventCount < count /\ u \in Nat
  BY <1>1, EpisodeAssumption
<1>3. /\ ep.runs \in [DOMAIN ep.runs -> [answer : Answers, ordinal : Nat]]
      /\ DOMAIN ep.runs \subseteq Slices
  BY <1>1 DEF SavedRuns
<1>4. /\ wide \in [DOMAIN ep.runs \cup {s} -> [answer : Answers, ordinal : Nat]]
      /\ \A t \in DOMAIN wide : wide[t].ordinal \in 1 .. count
  <2>1. \A t \in DOMAIN ep.runs : ep.runs[t].ordinal \in 1 .. ep.eventCount
    BY DEF OrdinalsOK
  <2>2. \A t \in DOMAIN ep.runs : ep.runs[t].ordinal \in 1 .. count
    BY <1>1, <1>2, <2>1
  <2>3. count \in 1 .. count
    BY <1>1, <1>2
  <2>4. wide = [t \in DOMAIN ep.runs \cup {s} |->
                  IF t = s THEN [answer |-> a, ordinal |-> count] ELSE ep.runs[t]]
    BY DEF WithRun
  <2> HIDE DEF count, wide
  <2> QED
    BY <1>2, <1>3, <2>2, <2>3, <2>4
<1>5. /\ DOMAIN runs \subseteq DOMAIN wide
      /\ runs = [t \in DOMAIN runs |-> wide[t]]
  <2> HIDE DEF wide
  <2> QED
    BY DEF PruneEpisodeRuns
<1>6. runs \in SavedRuns /\ \A t \in DOMAIN runs : runs[t].ordinal \in 1 .. count
  <2> HIDE DEF wide, runs, count
  <2>1. DOMAIN runs \in SUBSET Slices
    BY <1>3, <1>4, <1>5
  <2>2. runs \in [DOMAIN runs -> [answer : Answers, ordinal : Nat]]
    BY <1>4, <1>5
  <2>3. \A t \in DOMAIN runs : runs[t].ordinal \in 1 .. count
    BY <1>4, <1>5
  <2> QED
    BY <2>1, <2>2, <2>3 DEF SavedRuns
<1>7. ms \in Seq(Message)
  <2>1. Prompt(s) \in Message /\ Response(s, a) \in Message
    BY DEF Prompt, Response, Message
  <2> HIDE DEF ms
  <2>2. pair \in Seq(Message)
    BY <2>1
  <2> QED
    BY <1>1, <2>2, ConcatProperties DEF ms
<1>8. cur \in [Streams -> Nat]
  BY <1>1, EpisodeAssumption DEF UpdateSourceCursor
<1>9. ep2 = [ep EXCEPT !.messages = ms, !.tokens = u, !.eventCount = count,
                       !.cursors = cur, !.runs = runs]
  BY DEF AppendRun, WithRun
<1> HIDE DEF ms, runs, wide, count, cur, ep2
<1>10. ep2 \in Episode
  BY <1>2, <1>6, <1>7, <1>8, <1>9 DEF Episode
<1>11. /\ ep2.messages = ms /\ ep2.eventCount = count /\ ep2.cursors = cur /\ ep2.runs = runs
       /\ ep2.version = ep.version /\ ep2.content = ep.content /\ ep2.dropped = ep.dropped
  BY <1>9 DEF Episode
<1>12. OrdinalsOK(ep2)
  BY <1>6, <1>11 DEF OrdinalsOK
<1> QED
  BY <1>10, <1>11, <1>12 DEF ms, runs, wide, cur, ep2

\* The run cache after a run is the window of the longer log.
LEMMA AppendRunsFit ==
    ASSUME NEW ep \in Episode, OrdinalsOK(ep), NEW ep2, NEW L \in Seq(Run), NEW r \in Run,
           RunsFit(ep, L), r.slice \notin DOMAIN ep.runs,
           ep2.runs = PruneEpisodeRuns(WithRun(ep, r.slice, r.answer))
    PROVE  RunsFit(ep2, Append(L, r))
<1> DEFINE M == Append(L, r)
           n == Len(L)
           wide == WithRun(ep, r.slice, r.answer)
           count == ep.eventCount + NewEvents[r.slice]
<1>1. /\ M \in Seq(Run) /\ Len(M) = n + 1 /\ DOMAIN M = 1 .. n + 1 /\ DOMAIN L = 1 .. n
      /\ M[n + 1] = r /\ \A j \in 1 .. n : M[j] = L[j]
  OBVIOUS
<1>2. n \in Nat /\ RunLimit \in Nat \ {0}
  BY EpisodeAssumption
<1>3. r.slice \in Slices /\ ep.eventCount \in Nat
  BY DEF Run, Episode
<1>4. count \in Nat /\ ep.eventCount < count
  BY <1>3, EpisodeAssumption
<1>5. /\ DOMAIN wide = DOMAIN ep.runs \cup {r.slice}
      /\ wide[r.slice].answer = r.answer /\ wide[r.slice].ordinal = count
      /\ \A t \in DOMAIN ep.runs : wide[t] = ep.runs[t]
  BY DEF WithRun
<1> HIDE DEF M, n, wide, count
<1>6. Wider(M) = Window(L) \cup {n + 1}
  BY <1>1, <1>2 DEF Wider, Window, n
<1>7. /\ Window(M) \subseteq Wider(M) /\ n + 1 \in Window(M)
      /\ n + 1 \notin Window(L) /\ \A i \in Window(L) : i \in 1 .. n
  BY <1>1, <1>2 DEF Wider, Window, n
<1>8. /\ DOMAIN ep.runs = {L[i].slice : i \in Window(L)}
      /\ \A i \in Window(L) : ep.runs[L[i].slice].answer = L[i].answer
      /\ \A i, j \in Window(L) :
           i < j => ep.runs[L[i].slice].ordinal < ep.runs[L[j].slice].ordinal
  BY DEF RunsFit
<1>9. ASSUME NEW i \in Window(L)
      PROVE  /\ M[i] = L[i] /\ M[i].slice \in DOMAIN ep.runs
             /\ wide[M[i].slice] = ep.runs[L[i].slice]
             /\ wide[M[i].slice].ordinal \in 1 .. ep.eventCount
  <2>1. M[i] = L[i] /\ L[i].slice \in DOMAIN ep.runs
    BY <1>1, <1>7, <1>8
  <2> QED
    BY <1>5, <2>1 DEF OrdinalsOK
<1>10. DOMAIN wide = {M[i].slice : i \in Wider(M)}
  BY <1>1, <1>5, <1>6, <1>8, <1>9
<1>11. \A i \in Wider(M) : wide[M[i].slice].ordinal \in Nat
  BY <1>1, <1>3, <1>4, <1>5, <1>6, <1>9
<1>12. ASSUME NEW i \in Wider(M), NEW j \in Wider(M), i < j
       PROVE  wide[M[i].slice].ordinal < wide[M[j].slice].ordinal
  <2>1. i \in Window(L)
    BY <1>1, <1>2, <1>6, <1>7, <1>12
  <2>2. CASE j \in Window(L)
    BY <1>8, <1>9, <1>12, <2>1, <2>2
  <2>3. CASE j = n + 1
    BY <1>1, <1>3, <1>4, <1>5, <1>9, <2>1, <2>3
  <2> QED
    BY <1>6, <2>2, <2>3
<1>13. ep2.runs = [s \in {M[i].slice : i \in Window(M)} |-> wide[s]]
  BY <1>1, <1>10, <1>11, <1>12, PruneKeepsWindow, ZenonT(60) DEF wide
<1>14. \A i \in Window(M) : ep2.runs[M[i].slice] = wide[M[i].slice]
  BY <1>13
<1>15. \A i \in Wider(M) : wide[M[i].slice].answer = M[i].answer
  BY <1>1, <1>5, <1>6, <1>8, <1>9
<1>16. DOMAIN ep2.runs = {M[i].slice : i \in Window(M)}
  BY <1>13
<1> QED
  BY <1>7, <1>12, <1>14, <1>15, <1>16 DEF RunsFit, M

\* The cursor of the run's session becomes the maximum.
LEMMA AppendCursorsFit ==
    ASSUME NEW cursors \in [Streams -> Nat], NEW L \in Seq(Run), NEW r \in Run,
           CursorsFit(cursors, L)
    PROVE  CursorsFit(UpdateSourceCursor(cursors, r.slice), Append(L, r))
<1> DEFINE M == Append(L, r)
           n == Len(L)
           cur == UpdateSourceCursor(cursors, r.slice)
<1>1. /\ n \in Nat /\ DOMAIN M = 1 .. n + 1 /\ DOMAIN L = 1 .. n
      /\ M[n + 1] = r /\ \A j \in 1 .. n : M[j] = L[j]
  OBVIOUS
<1>2. r.slice \in Slices /\ \A j \in DOMAIN L : L[j].slice \in Slices
  <2>1. \A j \in DOMAIN L : L[j] \in Run
    OBVIOUS
  <2> QED
    BY <2>1 DEF Run
<1>3. /\ \A s \in Slices : StreamOf[s] \in Streams /\ ToSequence[s] \in Nat
  BY EpisodeAssumption
<1>4. /\ \A st \in Streams : st # StreamOf[r.slice] => cur[st] = cursors[st]
      /\ cur[StreamOf[r.slice]] = IF ToSequence[r.slice] > cursors[StreamOf[r.slice]]
                                    THEN ToSequence[r.slice] ELSE cursors[StreamOf[r.slice]]
  BY <1>2, <1>3 DEF UpdateSourceCursor
<1> HIDE DEF M, n, cur
<1>5. ASSUME NEW st \in Streams
      PROVE  \/ cur[st] = 0
             \/ \E i \in DOMAIN M : StreamOf[M[i].slice] = st /\ cur[st] = ToSequence[M[i].slice]
  <2>1. CASE st = StreamOf[r.slice] /\ ToSequence[r.slice] > cursors[st]
    <3>1. n + 1 \in DOMAIN M /\ M[n + 1] = r
      BY <1>1
    <3> QED
      BY <1>4, <2>1, <3>1
  <2>2. CASE ~ (st = StreamOf[r.slice] /\ ToSequence[r.slice] > cursors[st])
    <3>1. cur[st] = cursors[st]
      BY <1>4, <2>2
    <3>2. \A i \in DOMAIN L : i \in DOMAIN M /\ M[i] = L[i]
      BY <1>1
    <3> QED
      BY <3>1, <3>2 DEF CursorsFit
  <2> QED
    BY <2>1, <2>2
<1>6. ASSUME NEW st \in Streams, NEW i \in DOMAIN M, StreamOf[M[i].slice] = st
      PROVE  ToSequence[M[i].slice] <= cur[st]
  <2>1. cursors[st] \in Nat /\ cursors[st] <= cur[st] /\ cur[st] \in Nat
    BY <1>2, <1>3, <1>4
  <2>2. CASE i = n + 1
    BY <1>1, <1>2, <1>3, <1>4, <1>6, <2>1, <2>2
  <2>3. CASE i \in DOMAIN L
    <3>1. M[i] = L[i] /\ ToSequence[L[i].slice] \in Nat
      BY <1>1, <1>2, <1>3, <2>3
    <3>2. ToSequence[L[i].slice] <= cursors[st]
      BY <1>6, <2>3, <3>1 DEF CursorsFit
    <3> QED
      BY <2>1, <3>1, <3>2
  <2> QED
    BY <1>1, <2>2, <2>3
<1> QED
  BY <1>5, <1>6 DEF CursorsFit, M, cur

\* An episode that fits the log fits the longer log after a run.
LEMMA AppendFits ==
    ASSUME NEW ep \in Episode, OrdinalsOK(ep), NEW L \in Seq(Run), NEW P, NEW Q,
           NEW s \in Slices, NEW a \in Answers, NEW u \in Usages, NEW r,
           r = [slice |-> s, answer |-> a],
           s \notin DOMAIN ep.runs, Fits(ep, L, P),
           Unrepeated(Append(L, r), Q) => Covered(ep, L)
    PROVE  Fits(AppendRun(ep, s, a, u), Append(L, r), Q)
<1> DEFINE ep2 == AppendRun(ep, s, a, u)
           M   == Append(L, r)
           n   == Len(L)
           ms  == ep.messages
           m   == Len(ms)
           pair == <<Prompt(s), Response(s, a)>>
           ms2 == ms \o pair
<1>1. /\ ep2.messages = ms2 /\ ep2.content = ep.content /\ ep2.dropped = ep.dropped
      /\ ep2.cursors = UpdateSourceCursor(ep.cursors, s)
      /\ ep2.runs = PruneEpisodeRuns(WithRun(ep, s, a))
  BY AppendRunFields
<1>2. r \in Run /\ r.slice = s /\ r.answer = a
  BY DEF Run
<1>3. ms \in Seq(Message) /\ m \in Nat /\ n \in Nat /\ ep.cursors \in [Streams -> Nat]
  BY DEF Episode
<1>4. RunsFit(ep, L) /\ CursorsFit(ep.cursors, L) /\ TailOf(ms, L)
  BY DEF Fits
<1>5. /\ Len(ms2) = m + 2 /\ DOMAIN ms2 = 1 .. m + 2
      /\ \A i \in 1 .. m : ms2[i] = ms[i]
      /\ ms2[m + 1] = Prompt(s) /\ ms2[m + 2] = Response(s, a)
  <2>1. Prompt(s) \in Message /\ Response(s, a) \in Message
    BY DEF Prompt, Response, Message
  <2>2. pair \in Seq(Message) /\ Len(pair) = 2 /\ pair[1] = Prompt(s) /\ pair[2] = Response(s, a)
    BY <2>1
  <2> HIDE DEF pair, ms, m
  <2>3. /\ ms2 \in Seq(Message) /\ Len(ms2) = m + 2
        /\ \A i \in 1 .. m + 2 : ms2[i] = IF i <= m THEN ms[i] ELSE pair[i - m]
    <3>1. /\ ms \o pair \in Seq(Message) /\ Len(ms \o pair) = Len(ms) + Len(pair)
          /\ \A i \in 1 .. Len(ms) + Len(pair) :
               (ms \o pair)[i] = IF i <= Len(ms) THEN ms[i] ELSE pair[i - Len(ms)]
      BY <1>3, <2>2, ConcatProperties, Zenon
    <3> QED
      BY <2>2, <3>1, Zenon DEF m
  <2> HIDE DEF ms2
  <2>4. m + 1 \in 1 .. m + 2 /\ m + 2 \in 1 .. m + 2 /\ m + 1 - m = 1 /\ m + 2 - m = 2
    BY <1>3
  <2> QED
    BY <1>3, <2>2, <2>3, <2>4
<1>6. /\ M \in Seq(Run) /\ Len(M) = n + 1
      /\ \A i \in 1 .. 2 * n : Entry(M, i) = Entry(L, i)
      /\ Entry(M, 2 * n + 1) = Prompt(s) /\ Entry(M, 2 * n + 2) = Response(s, a)
  BY <1>2, EntryAppend
<1>7. m <= 2 * n /\ \A i \in 1 .. m : ms[i] = Entry(L, 2 * n - m + i)
  BY <1>4 DEF TailOf
<1>8. RunsFit(ep2, M)
  BY <1>1, <1>2, <1>4, AppendRunsFit
<1>9. CursorsFit(ep2.cursors, M)
  BY <1>1, <1>2, <1>3, <1>4, AppendCursorsFit
<1> HIDE DEF ep2, M, n, ms, m, ms2
<1>10. TailOf(ep2.messages, M)
  <2>1. ASSUME NEW i \in 1 .. m + 2 PROVE ms2[i] = Entry(M, 2 * (n + 1) - (m + 2) + i)
    <3>1. CASE i \in 1 .. m
      <4>1. 2 * n - m + i \in 1 .. 2 * n /\ 2 * (n + 1) - (m + 2) + i = 2 * n - m + i
        BY <1>3, <1>7, <3>1
      <4> QED
        BY <1>5, <1>6, <1>7, <3>1, <4>1
    <3>2. CASE i = m + 1
      <4>1. 2 * (n + 1) - (m + 2) + i = 2 * n + 1
        BY <1>3, <3>2
      <4> QED
        BY <1>5, <1>6, <3>2, <4>1
    <3>3. CASE i = m + 2
      <4>1. 2 * (n + 1) - (m + 2) + i = 2 * n + 2
        BY <1>3, <3>3
      <4> QED
        BY <1>5, <1>6, <3>3, <4>1
    <3>4. i \in 1 .. m \/ i = m + 1 \/ i = m + 2
      BY <1>3
    <3> QED
      BY <3>1, <3>2, <3>3, <3>4, Zenon
  <2>2. m + 2 <= 2 * (n + 1)
    BY <1>3, <1>7
  <2> QED
    BY <1>1, <1>5, <1>6, <2>1, <2>2 DEF TailOf
<1>11. ASSUME Unrepeated(M, Q) PROVE Covered(ep2, M)
  <2>1. ASSUME NEW i \in 1 .. 2 * (n + 1)
        PROVE  Entry(M, i) \in MessagesOf(ms2) \cup ep.content \cup ep.dropped
    <3>1. CASE i \in 1 .. 2 * n
      <4>1. Entry(L, i) \in MessagesOf(ms) \cup ep.content \cup ep.dropped
        BY <1>11, <3>1 DEF Covered, M, ms, n
      <4>2. MessagesOf(ms) \subseteq MessagesOf(ms2)
        <5>1. DOMAIN ms = 1 .. m /\ 1 .. m \subseteq 1 .. m + 2
          BY <1>3 DEF m
        <5> QED
          BY <1>5, <5>1 DEF MessagesOf
      <4> QED
        BY <1>6, <3>1, <4>1, <4>2
    <3>2. CASE i = 2 * n + 1
      <4>1. m + 1 \in 1 .. m + 2
        BY <1>3
      <4> QED
        BY <1>5, <1>6, <3>2, <4>1 DEF MessagesOf
    <3>3. CASE i = 2 * n + 2
      <4>1. m + 2 \in 1 .. m + 2
        BY <1>3
      <4> QED
        BY <1>5, <1>6, <3>3, <4>1 DEF MessagesOf
    <3>4. i \in 1 .. 2 * n \/ i = 2 * n + 1 \/ i = 2 * n + 2
      BY <1>3
    <3> QED
      BY <3>1, <3>2, <3>3, <3>4, Zenon
  <2> QED
    BY <1>1, <1>6, <2>1 DEF Covered
<1> QED
  BY <1>8, <1>9, <1>10, <1>11 DEF Fits, ep2, M
-----------------------------------------------------------------------------
(* What a save does to the copies and snapshots that others hold *)

\* How the log, the slices before it and the dropped messages move on.
Evolves(L, P, D, L2, P2, D2) ==
    \/ L2 = L /\ P2 = P /\ D \subseteq D2
    \/ \E r \in Run : L2 = Append(L, r) /\ P2 = P /\ D \subseteq D2
    \/ \E r \in Run : L2 = Append(<<>>, r) /\ P2 = P \cup SlicesOf(L)

\* If the longer log repeats no slice, then neither does the shorter one.
LEMMA AppendUnrepeated ==
    ASSUME NEW L \in Seq(Run), NEW r \in Run, NEW P, Unrepeated(Append(L, r), P)
    PROVE  Unrepeated(L, P) /\ r.slice \notin SlicesOf(L) /\ r.slice \notin P
<1> DEFINE M == Append(L, r)
           n == Len(L)
<1>1. /\ n \in Nat /\ DOMAIN M = 1 .. n + 1 /\ DOMAIN L = 1 .. n
      /\ M[n + 1] = r /\ \A j \in 1 .. n : M[j] = L[j]
  OBVIOUS
<1>2. /\ \A i, j \in DOMAIN M : M[i].slice = M[j].slice => i = j
      /\ \A i \in DOMAIN M : M[i].slice \notin P
  BY DEF Unrepeated
<1> HIDE DEF M, n
<1>3. \A i \in DOMAIN L : i \in DOMAIN M /\ M[i] = L[i] /\ i # n + 1
  BY <1>1
<1>4. n + 1 \in DOMAIN M
  BY <1>1
<1> QED
  BY <1>1, <1>2, <1>3, <1>4 DEF Unrepeated, SlicesOf

\* A snapshot stays one: a message that was not in the transcript when it was
\* taken can only come back by a repeated slice.
LEMMA SnapshotEvolves ==
    ASSUME NEW L \in Seq(Run), NEW P, NEW D, NEW L2, NEW P2, NEW D2,
           NEW base, NEW content,
           Snapshot(base, content, L, P, D), Evolves(L, P, D, L2, P2, D2)
    PROVE  Snapshot(base, content, L2, P2, D2)
<1>1. /\ base # <<>> /\ MessagesOf(base) \subseteq content
      /\ base[1].slice \in SlicesOf(L) \cup P
      /\ Unrepeated(L, P) =>
           \A n \in 1 .. 2 * Len(L) :
             Entry(L, n) = base[1] => \A i \in 1 .. n - 1 : Entry(L, i) \in content \cup D
  BY DEF Snapshot
<1>2. CASE L2 = L /\ P2 = P /\ D \subseteq D2
  BY <1>1, <1>2 DEF Snapshot
<1>3. ASSUME NEW r \in Run, L2 = Append(L, r), P2 = P, D \subseteq D2
      PROVE  Snapshot(base, content, L2, P2, D2)
  <2> DEFINE N == 2 * Len(L)
  <2>1. /\ L2 \in Seq(Run) /\ Len(L2) = Len(L) + 1
        /\ \A i \in 1 .. N : Entry(L2, i) = Entry(L, i)
        /\ Entry(L2, N + 1) = Prompt(r.slice) /\ Entry(L2, N + 2) = Response(r.slice, r.answer)
    BY <1>3, EntryAppend
  <2>2. N \in Nat /\ 2 * Len(L2) = N + 2
    BY <2>1
  <2>3. SlicesOf(L) \subseteq SlicesOf(L2)
    BY <1>3 DEF SlicesOf
  <2>4. ASSUME Unrepeated(L2, P2), NEW n \in 1 .. N + 2, Entry(L2, n) = base[1],
               NEW i \in 1 .. n - 1
        PROVE  Entry(L2, i) \in content \cup D2
    <3>1. Unrepeated(L, P) /\ r.slice \notin SlicesOf(L) \cup P
      BY <1>3, <2>4, AppendUnrepeated
    <3>2. Prompt(r.slice) # base[1] /\ Response(r.slice, r.answer) # base[1]
      BY <1>1, <3>1 DEF Prompt, Response
    <3> HIDE DEF N
    <3>3. n # N + 1 /\ n # N + 2
      BY <2>1, <2>4, <3>2
    <3>4. n \in 1 .. N /\ i \in 1 .. N
      BY <2>2, <3>3
    <3>5. Entry(L2, n) = Entry(L, n) /\ Entry(L2, i) = Entry(L, i)
      BY <2>1, <3>4
    <3>6. Entry(L, i) \in content \cup D
      BY <1>1, <2>4, <3>1, <3>4, <3>5 DEF N
    <3> QED
      BY <1>3, <3>5, <3>6
  <2> HIDE DEF N
  <2> QED
    BY <1>1, <1>3, <2>2, <2>3, <2>4 DEF Snapshot
<1>4. ASSUME NEW r \in Run, L2 = Append(<<>>, r), P2 = P \cup SlicesOf(L)
      PROVE  Snapshot(base, content, L2, P2, D2)
  <2>1. L2 \in Seq(Run) /\ Len(L2) \in Nat
    BY <1>4
  <2>2. base[1].slice \in P2
    BY <1>1, <1>4
  <2>3. ASSUME Unrepeated(L2, P2), NEW n \in 1 .. 2 * Len(L2) PROVE Entry(L2, n) # base[1]
    <3>1. PICK j \in DOMAIN L2 : Entry(L2, n).slice = L2[j].slice
      BY <2>1, EntryType
    <3>2. L2[j].slice \notin P2
      BY <2>3 DEF Unrepeated
    <3> QED
      BY <2>2, <3>1, <3>2
  <2> QED
    BY <1>1, <2>2, <2>3 DEF Snapshot
<1> QED
  BY <1>2, <1>3, <1>4 DEF Evolves

\* A copy that somebody else's save has overtaken can no longer be saved.
LEMMA CopyOvertaken ==
    ASSUME NEW L \in Seq(Run), NEW P, NEW L2, NEW P2, NEW st \in Episode, NEW st2 \in Episode,
           NEW k \in {IdleWorker} \cup BusyWorker,
           CopyOK(k, st, L, P), st2.version = st.version + 1,
           Evolves(L, P, st.dropped, L2, P2, st2.dropped)
    PROVE  CopyOK(k, st2, L2, P2)
<1> SUFFICES ASSUME k.pc \in {"prepare", "recompute", "bound", "call"}
             PROVE  CopyOK(k, st2, L2, P2)
  BY DEF CopyOK
<1>1. k \in BusyWorker
  BY DEF IdleWorker
<1>2. k.ep \in Episode
  BY <1>1 DEF BusyWorker
<1>3. k.ep.version \in Nat /\ st.version \in Nat
  BY <1>2 DEF Episode
<1>4. k.ep.version < st2.version
  BY <1>3 DEF CopyOK
<1>5. ASSUME k.pc = "prepare", k.ep.messages # <<>>
      PROVE  Snapshot(k.ep.messages, k.ep.content \cup MessagesOf(k.ep.messages), L2, P2,
                      st2.dropped)
  <2>1. Snapshot(k.ep.messages, k.ep.content \cup MessagesOf(k.ep.messages), L, P, st.dropped)
    BY <1>5, Zenon DEF CopyOK
  <2> QED
    BY <2>1, SnapshotEvolves, Zenon
<1>6. /\ k.slice \notin DOMAIN k.ep.runs
      /\ k.reset => k.ep.messages = <<>>
      /\ k.pc = "recompute" => k.ep.messages # <<>>
  BY DEF CopyOK
<1>7. k.ep.version <= st2.version /\ k.ep.version # st2.version
  BY <1>3, <1>4
<1> QED
  BY <1>5, <1>6, <1>7, Zenon DEF CopyOK

\* The same for a summary that is being persisted, and for its snapshot.
LEMMA SummaryOvertaken ==
    ASSUME NEW L \in Seq(Run), NEW P, NEW L2, NEW P2, NEW st \in Episode, NEW st2 \in Episode,
           NEW f \in Summary, SummaryOK(f, st, L, P), st2.version = st.version + 1,
           Evolves(L, P, st.dropped, L2, P2, st2.dropped)
    PROVE  SummaryOK(f, st2, L2, P2)
<1>1. ASSUME f.state \in {"running", "computed"}
      PROVE  Snapshot(f.base, f.content, L2, P2, st2.dropped)
  <2>1. Snapshot(f.base, f.content, L, P, st.dropped)
    BY <1>1 DEF SummaryOK
  <2> QED
    BY <2>1, SnapshotEvolves, Zenon
<1>2. ASSUME f.state = "persist"
      PROVE  OrdinalsOK(f.ep) /\ f.ep.version <= st2.version /\ f.ep.version # st2.version
  <2>1. f.ep \in Episode
    BY <1>2 DEF Summary, NoFlight
  <2>2. f.ep.version \in Nat /\ st.version \in Nat
    BY <2>1 DEF Episode
  <2> QED
    BY <1>2, <2>2 DEF SummaryOK
<1> QED
  BY <1>1, <1>2, Zenon DEF SummaryOK
-----------------------------------------------------------------------------
(* Steps: the stored episode stays or is replaced under its version, and at *)
(* most one worker changes.                                                 *)

StoreMoves ==
    \/ UNCHANGED <<store, log, past>>
    \/ /\ store' \in Episode /\ OrdinalsOK(store')
       /\ store'.version = store.version + 1
       /\ log' \in Seq(Run) /\ past' \in SUBSET Slices
       /\ Evolves(log, past, store.dropped, log', past', store'.dropped)
       /\ Fits(store', log', past')
       /\ AppendedOnce'

\* What every step leaves intact.
Carried ==
    /\ store' \in Episode /\ OrdinalsOK(store')
    /\ log' \in Seq(Run) /\ past' \in SUBSET Slices
    /\ Fits(store', log', past') /\ AppendedOnce'
    /\ \A p \in Procs, w \in Workers : CopyOK(worker[p][w], store', log', past')
    /\ \A p \in Procs : FlightOK(flight[p], log', past', store'.dropped)
    /\ \A p \in Procs : SummaryOK(summary[p], store', log', past')

\* What others hold stays what it was known to be, or is overtaken.
LEMMA MovesCarry ==
    ASSUME EpisodeInv, StoreMoves
    PROVE  Carried
<1>1. CASE UNCHANGED <<store, log, past>>
  BY <1>1 DEF EpisodeInv, Types, Carried, AppendedOnce
<1>2. CASE ~ UNCHANGED <<store, log, past>>
  <2>1. /\ store' \in Episode /\ OrdinalsOK(store')
        /\ store'.version = store.version + 1
        /\ log' \in Seq(Run) /\ past' \in SUBSET Slices
        /\ Evolves(log, past, store.dropped, log', past', store'.dropped)
        /\ Fits(store', log', past')
        /\ AppendedOnce'
    BY <1>2 DEF StoreMoves
  <2>2. store \in Episode /\ log \in Seq(Run)
    BY DEF EpisodeInv, Types
  <2>3. ASSUME NEW p \in Procs, NEW w \in Workers
        PROVE  CopyOK(worker[p][w], store', log', past')
    <3>1. worker[p][w] \in {IdleWorker} \cup BusyWorker /\ CopyOK(worker[p][w], store, log, past)
      BY DEF EpisodeInv, Types
    <3> QED
      BY <2>1, <2>2, <3>1, CopyOvertaken, Zenon
  <2>4. ASSUME NEW p \in Procs PROVE FlightOK(flight[p], log', past', store'.dropped)
    <3>1. FlightOK(flight[p], log, past, store.dropped)
      BY DEF EpisodeInv
    <3> QED
      BY <2>1, <2>2, <3>1, SnapshotEvolves, Zenon DEF FlightOK
  <2>5. ASSUME NEW p \in Procs PROVE SummaryOK(summary[p], store', log', past')
    <3>1. summary[p] \in Summary /\ SummaryOK(summary[p], store, log, past)
      BY DEF EpisodeInv, Types
    <3> QED
      BY <2>1, <2>2, <3>1, SummaryOvertaken, Zenon
  <2> QED
    BY <2>1, <2>3, <2>4, <2>5, Zenon DEF Carried
<1> QED
  BY <1>1, <1>2, Zenon

HoldingLabels == {"load", "prepare", "recompute", "bound", "call"}

\* Worker w of process p becomes k: it goes on, or it returns and lets the lease go.
WorkerBecomes(p, w, k) ==
    /\ worker' = [worker EXCEPT ![p][w] = k]
    /\ \/ k \in BusyWorker /\ k.pc \in HoldingLabels /\ lease' = lease
       \/ k = IdleWorker /\ lease' = [lease EXCEPT ![p] = Nobody]

\* What the steps do to flights and summaries: they keep their types and what
\* is known of them, and no summary starts or stops to be persisted.
BackgroundKept ==
    /\ flight' \in [Procs -> Flight] /\ summary' \in [Procs -> Summary]
    /\ \A q \in Procs : FlightOK(flight'[q], log', past', store'.dropped)
    /\ \A q \in Procs : SummaryOK(summary'[q], store', log', past')
    /\ \A q \in Procs : summary'[q].state = "persist" <=> summary[q].state = "persist"

CountersOK ==
    /\ conf' \in [Procs -> Configs]
    /\ extracts' \in 0 .. MaxExtracts /\ faults' \in 0 .. MaxFaults

\* The state after a change of one worker.
LEMMA SetWorker ==
    ASSUME Types, NEW p \in Procs, NEW w \in Workers,
           NEW k \in {IdleWorker} \cup BusyWorker, worker' = [worker EXCEPT ![p][w] = k]
    PROVE  /\ worker' \in [Procs -> [Workers -> {IdleWorker} \cup BusyWorker]]
           /\ worker'[p][w] = k
           /\ \A q \in Procs, v \in Workers : q # p \/ v # w => worker'[q][v] = worker[q][v]
<1> DEFINE K == {IdleWorker} \cup BusyWorker
<1>1. worker \in [Procs -> [Workers -> K]] /\ k \in K
  BY DEF Types
<1> HIDE DEF K
<1>2. worker' \in [Procs -> [Workers -> K]]
  BY <1>1
<1>3. worker'[p][w] = k
  BY <1>1
<1>4. \A q \in Procs, v \in Workers : q # p \/ v # w => worker'[q][v] = worker[q][v]
  BY <1>1
<1> QED
  BY <1>2, <1>3, <1>4 DEF K

\* A step of the worker that holds the lease.
LEMMA HolderStep ==
    ASSUME EpisodeInv, StoreMoves, BackgroundKept, CountersOK,
           NEW p \in Procs, NEW w \in Workers, NEW k,
           Holds(p, w), WorkerBecomes(p, w, k), CopyOrdinals(k), CopyOK(k, store', log', past')
    PROVE  EpisodeInv'
<1>1. Types /\ Carried
  BY MovesCarry DEF EpisodeInv
<1>2. k \in {IdleWorker} \cup BusyWorker /\ worker' = [worker EXCEPT ![p][w] = k]
  BY DEF WorkerBecomes
<1>3. /\ worker' \in [Procs -> [Workers -> {IdleWorker} \cup BusyWorker]]
      /\ worker'[p][w] = k
      /\ \A q \in Procs, v \in Workers : q # p \/ v # w => worker'[q][v] = worker[q][v]
  BY <1>1, <1>2, SetWorker, ZenonT(60)
<1>4. lease \in [Procs -> Workers \cup {Nobody, Summariser}] /\ lease[p] = w
  BY DEF EpisodeInv, Types, LeaseOK
<1>5. lease' \in [Procs -> Workers \cup {Nobody, Summariser}]
  BY <1>4 DEF WorkerBecomes
<1>6. Types'
  BY <1>1, <1>3, <1>5 DEF Types, Carried, BackgroundKept, CountersOK
<1>7. LeaseOK'
  <2>1. Nobody \notin Workers /\ Summariser \notin Workers /\ Nobody # Summariser
    BY EpisodeAssumption
  <2>2. /\ \A q \in Procs, v \in Workers : Holds(q, v) <=> lease[q] = v
        /\ \A q \in Procs : summary[q].state = "persist" <=> lease[q] = Summariser
    BY DEF EpisodeInv, LeaseOK
  <2>3. ASSUME NEW q \in Procs, NEW v \in Workers PROVE Holds(q, v)' <=> lease'[q] = v
    <3>1. CASE k \in BusyWorker /\ k.pc \in HoldingLabels /\ lease' = lease
      BY <1>3, <1>4, <2>2, <3>1 DEF Holds, HoldingLabels
    <3>2. CASE k = IdleWorker /\ lease' = [lease EXCEPT ![p] = Nobody]
      BY <1>3, <1>4, <2>1, <2>2, <3>2 DEF Holds, IdleWorker
    <3> QED
      BY <3>1, <3>2 DEF WorkerBecomes
  <2>4. ASSUME NEW q \in Procs PROVE lease'[q] = Summariser <=> lease[q] = Summariser
    BY <1>4, <2>1 DEF WorkerBecomes
  <2> QED
    BY <2>2, <2>3, <2>4 DEF LeaseOK, BackgroundKept
<1>8. \A q \in Procs, v \in Workers :
        CopyOrdinals(worker'[q][v]) /\ CopyOK(worker'[q][v], store', log', past')
  <2> SUFFICES ASSUME NEW q \in Procs, NEW v \in Workers
               PROVE  CopyOrdinals(worker'[q][v]) /\ CopyOK(worker'[q][v], store', log', past')
    OBVIOUS
  <2>1. CASE q = p /\ v = w
    BY <1>3, <2>1
  <2>2. CASE q # p \/ v # w
    <3>1. CopyOrdinals(worker[q][v])
      BY DEF EpisodeInv
    <3> QED
      BY <1>1, <1>3, <2>2, <3>1 DEF Carried
  <2> QED
    BY <2>1, <2>2
<1> QED
  BY <1>1, <1>6, <1>7, <1>8 DEF EpisodeInv, Carried, BackgroundKept

\* A worker that is not idle has a slice and a copy.
LEMMA BusyAt ==
    ASSUME Types, NEW p \in Procs, NEW w \in Workers, worker[p][w].pc # "idle"
    PROVE  worker[p][w] \in BusyWorker
  BY DEF Types, IdleWorker

\* A worker goes on with another copy.
LEMMA GotoBecomes ==
    ASSUME Types, NEW p \in Procs, NEW w \in Workers, worker[p][w] \in BusyWorker,
           NEW ep \in Episode, NEW label \in HoldingLabels, Goto(p, w, label, ep)
    PROVE  \E k \in BusyWorker :
             /\ WorkerBecomes(p, w, k)
             /\ k.pc = label /\ k.ep = ep
             /\ k.slice = worker[p][w].slice /\ k.reset = worker[p][w].reset
<1> DEFINE k == [worker[p][w] EXCEPT !.pc = label, !.ep = ep]
<1>1. worker \in [Procs -> [Workers -> {IdleWorker} \cup BusyWorker]]
  BY DEF Types
<1>2. worker' = [worker EXCEPT ![p][w] = k]
  BY <1>1 DEF Goto
<1>3. k \in BusyWorker
  BY DEF BusyWorker, HoldingLabels
<1>4. /\ k.pc = label /\ k.ep = ep
      /\ k.slice = worker[p][w].slice /\ k.reset = worker[p][w].reset
  BY DEF BusyWorker
<1> HIDE DEF k
<1>5. WorkerBecomes(p, w, k)
  BY <1>2, <1>3, <1>4 DEF WorkerBecomes, Goto
<1> QED
  BY <1>3, <1>4, <1>5

\* advanceEpisode returns.
LEMMA ReturnBecomes ==
    ASSUME NEW p \in Procs, NEW w \in Workers, Return(p, w)
    PROVE  /\ WorkerBecomes(p, w, IdleWorker) /\ CopyOrdinals(IdleWorker)
           /\ \A st, L, P : CopyOK(IdleWorker, st, L, P)
  BY DEF Return, WorkerBecomes, CopyOrdinals, CopyOK, IdleWorker

\* A conflict leaves the worker without a copy that it could still save.
LEMMA ConflictBecomes ==
    ASSUME Types, NEW p \in Procs, NEW w \in Workers, worker[p][w] \in BusyWorker,
           CopyOrdinals(worker[p][w]), Conflict(p, w)
    PROVE  \E k : /\ WorkerBecomes(p, w, k) /\ CopyOrdinals(k)
                  /\ \A st, L, P : CopyOK(k, st, L, P)
<1>1. CASE worker[p][w].attempt = 1
  <2> DEFINE k == [worker[p][w] EXCEPT !.pc = "load", !.attempt = 2]
  <2>1. worker \in [Procs -> [Workers -> {IdleWorker} \cup BusyWorker]]
    BY DEF Types
  <2>2. worker' = [worker EXCEPT ![p][w] = k] /\ lease' = lease
    BY <1>1, <2>1 DEF Conflict
  <2>3. k \in BusyWorker /\ k.pc = "load" /\ k.ep = worker[p][w].ep
    BY DEF BusyWorker
  <2>4. OrdinalsOK(worker[p][w].ep)
    BY DEF CopyOrdinals, BusyWorker
  <2> HIDE DEF k
  <2>5. WorkerBecomes(p, w, k) /\ CopyOrdinals(k) /\ \A st, L, P : CopyOK(k, st, L, P)
    BY <2>2, <2>3, <2>4 DEF WorkerBecomes, HoldingLabels, CopyOrdinals, CopyOK
  <2> QED
    BY <2>5
<1>2. CASE worker[p][w].attempt # 1
  <2>1. Return(p, w)
    BY <1>2 DEF Conflict
  <2> QED
    BY <2>1, ReturnBecomes
<1> QED
  BY <1>1, <1>2

\* Flights and summaries that nobody touches.
LEMMA BackgroundUnchanged ==
    ASSUME EpisodeInv, StoreMoves, UNCHANGED <<flight, summary>>
    PROVE  BackgroundKept
<1>1. Carried
  BY MovesCarry
<1> QED
  BY <1>1 DEF EpisodeInv, Types, Carried, BackgroundKept

\* What a worker shows a background call when its copy is the stored episode.
LEMMA SnapshotOfCurrent ==
    ASSUME NEW ep \in Episode, NEW L \in Seq(Run), NEW P, NEW D,
           Fits(ep, L, P), ep.messages # <<>>, ep.dropped \subseteq D
    PROVE  Snapshot(ep.messages, ep.content \cup MessagesOf(ep.messages), L, P, D)
<1> DEFINE N == 2 * Len(L)
           m == Len(ep.messages)
<1>1. N \in Nat /\ m \in Nat /\ m >= 1
  BY DEF Episode
<1>2. m <= N /\ \A i \in 1 .. m : ep.messages[i] = Entry(L, N - m + i)
  BY DEF Fits, TailOf
<1>3. ep.messages[1].slice \in SlicesOf(L)
  <2> HIDE DEF m, N
  <2>1. 1 \in 1 .. m /\ N - m + 1 \in 1 .. N
    BY <1>1, <1>2
  <2>2. ep.messages[1] = Entry(L, N - m + 1)
    BY <1>2, <2>1
  <2>3. \E j \in DOMAIN L : Entry(L, N - m + 1).slice = L[j].slice
    BY <2>1, EntryType DEF N
  <2> QED
    BY <2>2, <2>3 DEF SlicesOf
<1>4. ASSUME Unrepeated(L, P), NEW i \in 1 .. N
      PROVE  Entry(L, i) \in (ep.content \cup MessagesOf(ep.messages)) \cup D
  BY <1>4 DEF Fits, Covered
<1>5. \A n \in 1 .. N : \A i \in 1 .. n - 1 : i \in 1 .. N
  BY <1>1
<1> QED
  BY <1>3, <1>4, <1>5 DEF Snapshot

\* An episode that starts anew fits the empty log.
LEMMA FreshFits ==
    ASSUME NEW ep, ep.messages = <<>>, ep.runs = NoRuns, ep.cursors = [st \in Streams |-> 0],
           NEW P
    PROVE  Fits(ep, <<>>, P)
<1>1. Len(<<>>) = 0 /\ DOMAIN <<>> = {}
  OBVIOUS
<1>2. TailOf(ep.messages, <<>>)
  BY <1>1 DEF TailOf
<1>3. RunsFit(ep, <<>>)
  BY <1>1 DEF RunsFit, Window, NoRuns
<1>4. CursorsFit(ep.cursors, <<>>)
  BY <1>1 DEF CursorsFit
<1>5. Covered(ep, <<>>)
  BY <1>1 DEF Covered
<1> QED
  BY <1>2, <1>3, <1>4, <1>5 DEF Fits
-----------------------------------------------------------------------------
(* The actions *)

\* The episode as it is created.
LEMMA NoEpisodeType == NoEpisode \in Episode /\ OrdinalsOK(NoEpisode)
<1>1. NoRuns \in SavedRuns
  <2>1. NoRuns \in [{} -> [answer : Answers, ordinal : Nat]]
    BY DEF NoRuns
  <2> QED
    BY <2>1 DEF SavedRuns
<1>2. NoEpisode \in Episode
  BY <1>1 DEF NoEpisode, Episode
<1>3. DOMAIN NoEpisode.runs = {}
  BY DEF NoEpisode, NoRuns
<1> QED
  BY <1>2, <1>3 DEF OrdinalsOK

\* The invariant holds initially.
LEMMA InitInv == Init => EpisodeInv
<1> SUFFICES ASSUME Init PROVE EpisodeInv
  OBVIOUS
<1>1. Types
  BY NoEpisodeType, EpisodeAssumption DEF Init, Types, Flight, Summary
<1>2. LeaseOK
  BY EpisodeAssumption DEF Init, LeaseOK, Holds, IdleWorker, NoFlight
<1>3. AppendedOnce
  BY DEF Init, AppendedOnce
<1>4. Fits(store, log, past)
  BY FreshFits DEF Init, NoEpisode
<1>5. \A p \in Procs, w \in Workers :
        CopyOrdinals(worker[p][w]) /\ CopyOK(worker[p][w], store, log, past)
  BY DEF Init, IdleWorker, CopyOrdinals, CopyOK
<1>6. \A p \in Procs : FlightOK(flight[p], log, past, store.dropped)
  BY DEF Init, NoFlight, FlightOK
<1>7. \A p \in Procs : SummaryOK(summary[p], store, log, past)
  BY DEF Init, NoFlight, SummaryOK
<1> QED
  BY <1>1, <1>2, <1>3, <1>4, <1>5, <1>6, <1>7 DEF EpisodeInv

\* A worker that does not hold the lease takes a slice.
LEMMA ExtractInv ==
    ASSUME EpisodeInv, NEW p \in Procs, NEW w \in Workers, NEW s \in Slices, Extract(p, w, s)
    PROVE  EpisodeInv'
<1> DEFINE k == [pc |-> "acquire", slice |-> s, attempt |-> 1, ep |-> NoEpisode, reset |-> FALSE]
<1>1. k \in BusyWorker /\ k.pc = "acquire" /\ k.ep = NoEpisode
  BY NoEpisodeType DEF BusyWorker
<1>2. worker' = [worker EXCEPT ![p][w] = k] /\ worker[p][w].pc = "idle"
  BY DEF Extract, At
<1>3. UNCHANGED <<store, conf, lease, flight, summary, log, past, faults>>
  BY DEF Extract
<1>4. extracts' \in 0 .. MaxExtracts
  BY EpisodeAssumption DEF Extract, EpisodeInv, Types
<1> HIDE DEF k
<1>5. /\ worker' \in [Procs -> [Workers -> {IdleWorker} \cup BusyWorker]]
      /\ worker'[p][w] = k
      /\ \A q \in Procs, v \in Workers : q # p \/ v # w => worker'[q][v] = worker[q][v]
  <2>1. Types /\ k \in {IdleWorker} \cup BusyWorker
    BY <1>1 DEF EpisodeInv
  <2> QED
    BY <1>2, <2>1, SetWorker, ZenonT(60)
<1>6. Types'
  BY <1>3, <1>4, <1>5 DEF EpisodeInv, Types
<1>7. \A q \in Procs, v \in Workers : Holds(q, v)' <=> Holds(q, v)
  BY <1>1, <1>2, <1>5 DEF Holds
<1>8. LeaseOK'
  BY <1>3, <1>7 DEF EpisodeInv, LeaseOK
<1>9. CopyOrdinals(k) /\ CopyOK(k, store, log, past)
  BY <1>1, NoEpisodeType DEF CopyOrdinals, CopyOK
<1>10. \A q \in Procs, v \in Workers :
         CopyOrdinals(worker'[q][v]) /\ CopyOK(worker'[q][v], store, log, past)
  BY <1>5, <1>9, Zenon DEF EpisodeInv
<1> QED
  BY <1>3, <1>6, <1>8, <1>10 DEF EpisodeInv, AppendedOnce

\* The lease is taken when nobody has it.
LEMMA AcquireInv ==
    ASSUME EpisodeInv, NEW p \in Procs, NEW w \in Workers, AcquireEpisode(p, w)
    PROVE  EpisodeInv'
<1> DEFINE k == [worker[p][w] EXCEPT !.pc = "load"]
<1>0. Types /\ worker[p][w].pc = "acquire" /\ lease[p] = Nobody
  BY DEF AcquireEpisode, At, EpisodeInv
<1>1. worker[p][w] \in BusyWorker
  BY <1>0, BusyAt
<1>2. k \in BusyWorker /\ k.pc = "load" /\ k.ep = worker[p][w].ep
  BY <1>1 DEF BusyWorker
<1>3. worker' = [worker EXCEPT ![p][w] = k] /\ lease' = [lease EXCEPT ![p] = w]
  BY <1>0 DEF AcquireEpisode, Types
<1>4. UNCHANGED <<store, conf, flight, summary, log, past, extracts, faults>>
  BY DEF AcquireEpisode
<1> HIDE DEF k
<1>5. /\ worker' \in [Procs -> [Workers -> {IdleWorker} \cup BusyWorker]]
      /\ worker'[p][w] = k
      /\ \A q \in Procs, v \in Workers : q # p \/ v # w => worker'[q][v] = worker[q][v]
  BY <1>0, <1>2, <1>3, SetWorker, ZenonT(60)
<1>6. Types'
  BY <1>3, <1>4, <1>5 DEF EpisodeInv, Types
<1>7. LeaseOK'
  <2>1. Nobody \notin Workers /\ Summariser \notin Workers /\ Nobody # Summariser
    BY EpisodeAssumption
  <2>2. /\ \A q \in Procs, v \in Workers : Holds(q, v) <=> lease[q] = v
        /\ \A q \in Procs : summary[q].state = "persist" <=> lease[q] = Summariser
    BY DEF EpisodeInv, LeaseOK
  <2>3. lease'[p] = w /\ \A q \in Procs : q # p => lease'[q] = lease[q]
    BY <1>0, <1>3 DEF Types
  <2>4. \A q \in Procs, v \in Workers : Holds(q, v)' <=> lease'[q] = v
    BY <1>0, <1>2, <1>5, <2>1, <2>2, <2>3 DEF Holds
  <2>5. \A q \in Procs : summary'[q].state = "persist" <=> lease'[q] = Summariser
    BY <1>0, <1>4, <2>1, <2>2, <2>3
  <2> QED
    BY <2>4, <2>5 DEF LeaseOK
<1>8. CopyOrdinals(k) /\ CopyOK(k, store, log, past)
  <2>1. CopyOrdinals(worker[p][w])
    BY DEF EpisodeInv
  <2> QED
    BY <1>0, <1>2, <2>1 DEF CopyOrdinals, CopyOK
<1>9. \A q \in Procs, v \in Workers :
         CopyOrdinals(worker'[q][v]) /\ CopyOK(worker'[q][v], store, log, past)
  BY <1>5, <1>8, Zenon DEF EpisodeInv
<1> QED
  BY <1>4, <1>6, <1>7, <1>9 DEF EpisodeInv, AppendedOnce

\* The copy that advanceEpisodeAttempt starts from.
LEMMA LoadedOK ==
    ASSUME EpisodeInv, NEW p \in Procs, NEW reset, reset = (store.release # conf[p].release)
    PROVE  /\ Loaded(p) \in Episode /\ OrdinalsOK(Loaded(p))
           /\ Loaded(p).version = store.version
           /\ reset => Loaded(p).messages = <<>>
           /\ Fits(Loaded(p), IF reset THEN <<>> ELSE log, past)
           /\ ~ reset => Loaded(p).dropped = store.dropped
           /\ Loaded(p).messages # <<>> => Fits(Loaded(p), log, past)
<1> DEFINE fresh == [NoEpisode EXCEPT !.version = store.version]
           from  == IF reset THEN fresh ELSE store
           ep    == [from EXCEPT !.release = conf[p].release]
<1>1. store \in Episode /\ OrdinalsOK(store) /\ Fits(store, log, past)
  BY DEF EpisodeInv, Types
<1>2. conf[p].release \in Releases
  BY DEF EpisodeInv, Types, Releases
<1>3. /\ fresh \in Episode /\ fresh.version = store.version /\ fresh.messages = <<>>
      /\ fresh.runs = NoRuns /\ fresh.cursors = [st \in Streams |-> 0]
  <2>1. store.version \in Nat
    BY <1>1 DEF Episode
  <2>2. fresh \in Episode
    BY <2>1, NoEpisodeType DEF Episode
  <2> QED
    BY <2>2 DEF NoEpisode
<1>4. Loaded(p) = ep
  BY DEF Loaded
<1>5. from \in Episode /\ from.version = store.version
  BY <1>1, <1>3
<1> HIDE DEF from, fresh
<1>6. /\ ep \in Episode /\ ep.version = from.version /\ ep.messages = from.messages
      /\ ep.runs = from.runs /\ ep.cursors = from.cursors /\ ep.eventCount = from.eventCount
      /\ ep.content = from.content /\ ep.dropped = from.dropped
  BY <1>2, <1>5 DEF Episode
<1> HIDE DEF ep
<1>7. CASE reset
  <2>1. from = fresh
    BY <1>7 DEF from
  <2>2. OrdinalsOK(ep)
    BY <1>3, <1>6, <2>1 DEF OrdinalsOK, NoRuns
  <2>3. Fits(ep, <<>>, past)
    BY <1>3, <1>6, <2>1, FreshFits
  <2> QED
    BY <1>3, <1>4, <1>6, <1>7, <2>1, <2>2, <2>3
<1>8. CASE ~ reset
  <2>1. from = store
    BY <1>8 DEF from
  <2>2. OrdinalsOK(ep)
    BY <1>1, <1>6, <2>1 DEF OrdinalsOK
  <2>3. Fits(ep, log, past)
    BY <1>1, <1>6, <2>1 DEF Fits, RunsFit, Covered
  <2> QED
    BY <1>4, <1>6, <1>8, <2>1, <2>2, <2>3
<1> QED
  BY <1>7, <1>8

\* The worker replays the run, or goes on with the loaded episode.
LEMMA LoadEpisodeBecomes ==
    ASSUME EpisodeInv, NEW p \in Procs, NEW w \in Workers, At(p, w, "load"), LoadEpisode(p, w)
    PROVE  \E k : /\ WorkerBecomes(p, w, k) /\ CopyOrdinals(k)
                  /\ CopyOK(k, store, log, past)
<1>1. CASE worker[p][w].slice \in DOMAIN Loaded(p).runs
  <2>1. Return(p, w)
    BY <1>1 DEF LoadEpisode
  <2> QED
    BY <2>1, ReturnBecomes
<1>2. CASE worker[p][w].slice \notin DOMAIN Loaded(p).runs
  <2> DEFINE ep == Loaded(p)
             reset == (store.release # conf[p].release)
             k  == [worker[p][w] EXCEPT !.pc = "prepare", !.ep = ep, !.reset = reset]
  <2>1. Types /\ worker[p][w] \in BusyWorker
    BY BusyAt DEF EpisodeInv, At
  <2>2. /\ ep \in Episode /\ OrdinalsOK(ep) /\ ep.version = store.version
        /\ reset => ep.messages = <<>>
        /\ Fits(ep, IF reset THEN <<>> ELSE log, past)
        /\ ~ reset => ep.dropped = store.dropped
        /\ ep.messages # <<>> => Fits(ep, log, past)
    BY LoadedOK
  <2>3. worker' = [worker EXCEPT ![p][w].pc = "prepare", ![p][w].ep = ep, ![p][w].reset = reset]
        /\ lease' = lease
    BY <1>2 DEF LoadEpisode
  <2>4. store.version \in Nat /\ log \in Seq(Run)
    BY <2>1 DEF Types, Episode
  <2>5. reset \in BOOLEAN /\ ep.runs = Loaded(p).runs
    OBVIOUS
  <2> HIDE DEF ep, reset
  <2>6. worker' = [worker EXCEPT ![p][w] = k]
    BY <2>1, <2>3 DEF Types
  <2>7. /\ k \in BusyWorker /\ k.pc = "prepare" /\ k.ep = ep /\ k.reset = reset
        /\ k.slice = worker[p][w].slice
    BY <2>1, <2>2, <2>5 DEF BusyWorker
  <2> HIDE DEF k
  <2>8. WorkerBecomes(p, w, k)
    BY <2>3, <2>6, <2>7 DEF WorkerBecomes, HoldingLabels
  <2>9. ASSUME ep.messages # <<>>
        PROVE  Snapshot(ep.messages, ep.content \cup MessagesOf(ep.messages), log, past,
                        store.dropped)
    <3>1. Fits(ep, log, past) /\ ep.dropped \subseteq store.dropped
      BY <2>2, <2>9
    <3> QED
      BY <2>2, <2>4, <2>9, <3>1, SnapshotOfCurrent, Zenon
  <2>10. CopyOrdinals(k)
    BY <2>2, <2>7 DEF CopyOrdinals
  <2>11. ep.version <= store.version
    BY <2>2, <2>4
  <2>12. ~ reset => store.dropped \subseteq ep.dropped
    BY <2>2
  <2>13. CopyOK(k, store, log, past)
    BY <1>2, <2>2, <2>5, <2>7, <2>9, <2>11, <2>12, Zenon DEF CopyOK
  <2> QED
    BY <2>8, <2>10, <2>13
<1> QED
  BY <1>1, <1>2

\* Nothing is stored by a load; a failed summary is reported once.
LEMMA LoadInv ==
    ASSUME EpisodeInv, NEW p \in Procs, NEW w \in Workers, Load(p, w)
    PROVE  EpisodeInv'
<1>1. /\ At(p, w, "load") /\ worker[p][w].pc # "idle"
      /\ UNCHANGED <<store, conf, flight, log, past, extracts, faults>>
  BY DEF Load, At
<1>2. Types /\ Holds(p, w) /\ StoreMoves /\ CountersOK
  BY <1>1 DEF EpisodeInv, Types, Holds, At, StoreMoves, CountersOK
<1>3. worker[p][w] \in BusyWorker /\ CopyOrdinals(worker[p][w])
  BY <1>1, <1>2, BusyAt DEF EpisodeInv
<1>4. PICK k : WorkerBecomes(p, w, k) /\ CopyOrdinals(k) /\ CopyOK(k, store, log, past)
  <2>1. LoadEpisode(p, w) \/ Conflict(p, w) \/ Return(p, w)
    BY DEF Load
  <2>2. CASE LoadEpisode(p, w)
    BY <1>1, <2>2, LoadEpisodeBecomes
  <2>3. CASE Conflict(p, w)
    BY <1>2, <1>3, <2>3, ConflictBecomes
  <2>4. CASE Return(p, w)
    BY <2>4, ReturnBecomes
  <2> QED
    BY <2>1, <2>2, <2>3, <2>4
<1>5. BackgroundKept
  <2>1. CASE UNCHANGED summary
    BY <1>1, <1>2, <2>1, BackgroundUnchanged
  <2>2. CASE summary[p].state = "done" /\ summary' = [summary EXCEPT ![p] = NoFlight]
    <3>1. summary \in [Procs -> Summary] /\ flight \in [Procs -> Flight] /\ NoFlight \in Summary
      BY <1>2 DEF Types, Summary
    <3>2. /\ summary' \in [Procs -> Summary] /\ summary'[p] = NoFlight
          /\ \A q \in Procs : q # p => summary'[q] = summary[q]
      BY <2>2, <3>1
    <3>3. SummaryOK(NoFlight, store, log, past) /\ NoFlight.state # "persist"
      BY DEF SummaryOK, NoFlight
    <3>4. \A q \in Procs : SummaryOK(summary'[q], store, log, past)
      BY <3>2, <3>3 DEF EpisodeInv
    <3> QED
      BY <1>1, <2>2, <3>1, <3>2, <3>3, <3>4 DEF EpisodeInv, BackgroundKept
  <2> QED
    BY <2>1, <2>2 DEF Load
<1>6. CopyOK(k, store', log', past')
  BY <1>1, <1>4
<1> QED
  BY <1>2, <1>4, <1>5, <1>6, HolderStep

\* A worker goes on with a copy that has the version and the runs of the old one.
LEMMA GotoInv ==
    ASSUME EpisodeInv, NEW p \in Procs, NEW w \in Workers,
           worker[p][w].pc \in {"prepare", "recompute", "bound"},
           NEW label \in {"recompute", "bound", "call"},
           NEW ep2 \in Episode, OrdinalsOK(ep2),
           ep2.version = worker[p][w].ep.version, ep2.runs = worker[p][w].ep.runs,
           worker[p][w].ep.dropped \subseteq ep2.dropped,
           worker[p][w].reset => ep2.messages = <<>>,
           ep2.version = store.version =>
             Fits(ep2, IF worker[p][w].reset THEN <<>> ELSE log, past),
           label = "recompute" => ep2.messages # <<>>,
           Goto(p, w, label, ep2),
           UNCHANGED <<store, log, past, conf, extracts, faults>>, BackgroundKept
    PROVE  EpisodeInv'
<1>1. Types /\ Holds(p, w) /\ StoreMoves /\ CountersOK
  BY DEF EpisodeInv, Types, Holds, StoreMoves, CountersOK
<1>2. worker[p][w] \in BusyWorker
  BY <1>1, BusyAt
<1>3. label \in HoldingLabels
  BY DEF HoldingLabels
<1>4. PICK k \in BusyWorker :
        /\ WorkerBecomes(p, w, k) /\ k.pc = label /\ k.ep = ep2
        /\ k.slice = worker[p][w].slice /\ k.reset = worker[p][w].reset
  BY <1>1, <1>2, <1>3, GotoBecomes
<1>5. CopyOrdinals(k)
  BY <1>4 DEF CopyOrdinals
<1>6. /\ worker[p][w].ep.version <= store.version
      /\ worker[p][w].slice \notin DOMAIN worker[p][w].ep.runs
      /\ worker[p][w].ep.version = store.version /\ ~ worker[p][w].reset =>
           store.dropped \subseteq worker[p][w].ep.dropped
  <2>1. CopyOK(worker[p][w], store, log, past)
    BY DEF EpisodeInv
  <2> QED
    BY <2>1 DEF CopyOK
<1>7. ep2.version = store.version /\ ~ worker[p][w].reset => store.dropped \subseteq ep2.dropped
  BY <1>6
<1>8. label # "prepare"
  OBVIOUS
<1>9. CopyOK(k, store, log, past)
  BY <1>4, <1>6, <1>7, <1>8, Zenon DEF CopyOK
<1>10. CopyOK(k, store', log', past')
  BY <1>9
<1> QED
  BY <1>1, <1>4, <1>5, <1>10, HolderStep

\* What is known of the copy of a worker between load and save.
LEMMA CopyFacts ==
    ASSUME EpisodeInv, NEW p \in Procs, NEW w \in Workers,
           worker[p][w].pc \in {"prepare", "recompute", "bound", "call"}
    PROVE  /\ worker[p][w] \in BusyWorker /\ Holds(p, w)
           /\ worker[p][w].ep \in Episode /\ OrdinalsOK(worker[p][w].ep)
           /\ worker[p][w].slice \in Slices /\ worker[p][w].slice \notin DOMAIN worker[p][w].ep.runs
           /\ worker[p][w].reset \in BOOLEAN
           /\ worker[p][w].reset => worker[p][w].ep.messages = <<>>
           /\ worker[p][w].ep.version = store.version =>
                Fits(worker[p][w].ep, IF worker[p][w].reset THEN <<>> ELSE log, past)
           /\ worker[p][w].ep.version = store.version /\ ~ worker[p][w].reset =>
                store.dropped \subseteq worker[p][w].ep.dropped
<1>1. Types /\ CopyOrdinals(worker[p][w]) /\ CopyOK(worker[p][w], store, log, past)
  BY DEF EpisodeInv
<1>2. worker[p][w] \in BusyWorker /\ worker[p][w].pc # "idle" /\ Holds(p, w)
  BY <1>1, BusyAt DEF Holds
<1>3. /\ worker[p][w].ep \in Episode /\ worker[p][w].slice \in Slices
      /\ worker[p][w].reset \in BOOLEAN
  BY <1>2 DEF BusyWorker
<1>4. OrdinalsOK(worker[p][w].ep)
  BY <1>1, <1>2 DEF CopyOrdinals
<1> QED
  BY <1>1, <1>2, <1>3, <1>4, Zenon DEF CopyOK

\* No flight, or none that is waited for.
LEMMA PrepareSkipInv ==
    ASSUME EpisodeInv, NEW p \in Procs, NEW w \in Workers, PrepareSkip(p, w)
    PROVE  EpisodeInv'
<1> DEFINE ep == worker[p][w].ep
<1>1. /\ worker[p][w].pc = "prepare" /\ Goto(p, w, "bound", ep)
      /\ UNCHANGED <<store, conf, flight, summary, log, past, extracts, faults>>
  BY DEF PrepareSkip, At
<1>2. BackgroundKept
  BY <1>1, BackgroundUnchanged DEF StoreMoves
<1>3. /\ ep \in Episode /\ OrdinalsOK(ep) /\ ep.dropped \subseteq ep.dropped
      /\ worker[p][w].reset => ep.messages = <<>>
      /\ ep.version = store.version => Fits(ep, IF worker[p][w].reset THEN <<>> ELSE log, past)
  BY <1>1, CopyFacts
<1> QED
  BY <1>1, <1>2, <1>3, GotoInv

\* A finished flight is consumed: nobody's background work is left behind.
LEMMA FlightCleared ==
    ASSUME EpisodeInv, NEW p \in Procs, flight' = [flight EXCEPT ![p] = NoFlight],
           UNCHANGED <<store, log, past, summary>>
    PROVE  BackgroundKept
<1>1. /\ flight \in [Procs -> Flight] /\ summary \in [Procs -> Summary] /\ NoFlight \in Flight
      /\ \A q \in Procs : FlightOK(flight[q], log, past, store.dropped)
      /\ \A q \in Procs : SummaryOK(summary[q], store, log, past)
  BY DEF EpisodeInv, Types, Flight
<1>2. /\ flight' \in [Procs -> Flight] /\ flight'[p] = NoFlight
      /\ \A q \in Procs : q # p => flight'[q] = flight[q]
  BY <1>1
<1>3. FlightOK(NoFlight, log, past, store.dropped)
  BY DEF FlightOK, NoFlight
<1>4. \A q \in Procs : FlightOK(flight'[q], log, past, store.dropped)
  BY <1>1, <1>2, <1>3
<1> QED
  BY <1>1, <1>2, <1>4 DEF BackgroundKept

\* A compaction is installed in the worker's copy only if the copy still starts
\* with its base.
LEMMA PrepareConsumeInv ==
    ASSUME EpisodeInv, NEW p \in Procs, NEW w \in Workers, PrepareConsume(p, w)
    PROVE  EpisodeInv'
<1> DEFINE ep == worker[p][w].ep
           f  == flight[p]
           ep2 == ApplyCompaction(ep, f)
<1>1. /\ worker[p][w].pc = "prepare" /\ ep.messages # <<>> /\ f.state = "done"
      /\ flight' = [flight EXCEPT ![p] = NoFlight]
      /\ UNCHANGED <<store, conf, summary, log, past, extracts, faults>>
  BY DEF PrepareConsume, At, Compacts
<1>2. BackgroundKept
  BY <1>1, FlightCleared
<1>3. /\ ep \in Episode /\ OrdinalsOK(ep)
      /\ worker[p][w].reset => ep.messages = <<>>
      /\ ep.version = store.version => Fits(ep, IF worker[p][w].reset THEN <<>> ELSE log, past)
      /\ ep.version = store.version /\ ~ worker[p][w].reset => store.dropped \subseteq ep.dropped
  BY <1>1, CopyFacts
<1>4. ~ worker[p][w].reset
  BY <1>1, <1>3
<1>5. CASE f.ok /\ BaseIsPrefix(f.base, ep.messages)
  <2>1. Goto(p, w, "bound", ep2)
    BY <1>5 DEF PrepareConsume
  <2>2. /\ f \in Flight /\ f.base \in Seq(Message) /\ f.content \in SUBSET Message
        /\ Snapshot(f.base, f.content, log, past, store.dropped)
    <3>1. f \in Flight /\ FlightOK(f, log, past, store.dropped)
      BY DEF EpisodeInv, Types
    <3> QED
      BY <1>1, <3>1 DEF Flight, NoFlight, FlightOK
  <2>3. /\ CutAt(ep2, ep, Len(f.base) + 1) /\ ep2.content = f.content
        /\ ep2.dropped = ep.dropped
    BY <1>3, <1>5, <2>2, CompactionCuts
  <2>4. log \in Seq(Run) /\ Len(f.base) + 1 <= Len(f.base) + 1
    BY <2>2 DEF EpisodeInv, Types
  <2> HIDE DEF ep, f, ep2
  <2>5. ASSUME ep.version = store.version PROVE Fits(ep2, log, past)
    <3>1. Fits(ep, log, past) /\ store.dropped \subseteq ep.dropped
      BY <1>3, <1>4, <2>5
    <3>2. ASSUME Unrepeated(log, past) PROVE Covered(ep2, log)
      BY <1>3, <1>5, <2>2, <2>3, <2>4, <3>1, <3>2, CheckpointCovers
    <3> QED
      BY <1>3, <2>3, <2>4, <3>1, <3>2, CutFits
  <2>6. OrdinalsOK(ep2)
    BY <1>3, <2>3, CutOrdinals
  <2>7. ep2 \in Episode /\ ep2.version = ep.version /\ ep2.runs = ep.runs
    BY <2>3 DEF CutAt
  <2> QED
    BY <1>1, <1>2, <1>3, <1>4, <2>1, <2>3, <2>5, <2>6, <2>7, GotoInv DEF ep
<1>6. CASE ~ (f.ok /\ BaseIsPrefix(f.base, ep.messages))
  <2>1. PICK label \in {"recompute", "bound", "call"} : Goto(p, w, label, ep)
    BY <1>6 DEF PrepareConsume
  <2> QED
    BY <1>1, <1>2, <1>3, <2>1, GotoInv
<1> QED
  BY <1>5, <1>6

\* The worker's own compaction covers everything; a truncation records what goes.
LEMMA RecomputeInv ==
    ASSUME EpisodeInv, NEW p \in Procs, NEW w \in Workers, Recompute(p, w)
    PROVE  EpisodeInv'
<1> DEFINE ep == worker[p][w].ep
           f  == Started(NoFlight, ep)
<1>1. /\ worker[p][w].pc = "recompute"
      /\ UNCHANGED <<store, conf, flight, summary, log, past, extracts, faults>>
  BY DEF Recompute, At
<1>2. BackgroundKept
  BY <1>1, BackgroundUnchanged DEF StoreMoves
<1>3. /\ ep \in Episode /\ OrdinalsOK(ep)
      /\ worker[p][w].reset => ep.messages = <<>>
      /\ ep.version = store.version => Fits(ep, IF worker[p][w].reset THEN <<>> ELSE log, past)
  BY <1>1, CopyFacts
<1>4. ep.messages # <<>> /\ log \in Seq(Run)
  <2>1. CopyOK(worker[p][w], store, log, past) /\ Types
    BY DEF EpisodeInv
  <2> QED
    BY <1>1, <2>1 DEF CopyOK, Types
<1>5. ~ worker[p][w].reset
  BY <1>3, <1>4
<1>6. ep.messages \in Seq(Message) /\ ep.content \in SUBSET Message
  BY <1>3 DEF Episode
<1>7. /\ f.base = ep.messages /\ f.content = ep.content \cup MessagesOf(ep.messages)
      /\ f.content \in SUBSET Message
  BY <1>6 DEF Started, NoFlight, MessagesOf
<1>8. \/ Goto(p, w, "bound", ApplyCompaction(ep, f))
      \/ Goto(p, w, "bound", TruncateEpisodeMessages(ep))
  BY DEF Recompute
<1> HIDE DEF f
<1>9. CASE Goto(p, w, "bound", ApplyCompaction(ep, f))
  <2> DEFINE ep2 == ApplyCompaction(ep, f)
  <2>1. BaseIsPrefix(f.base, ep.messages)
    BY <1>6, <1>7, SubSeqFull DEF BaseIsPrefix
  <2>2. /\ CutAt(ep2, ep, Len(f.base) + 1) /\ ep2.content = f.content
        /\ ep2.dropped = ep.dropped
    BY <1>3, <1>6, <1>7, <2>1, CompactionCuts
  <2>3. Len(f.base) + 1 <= Len(f.base) + 1 /\ ep.dropped \subseteq ep.dropped
    BY <1>6, <1>7
  <2>4. Goto(p, w, "bound", ep2)
    BY <1>9
  <2> HIDE DEF ep2, ep
  <2>5. ASSUME ep.version = store.version PROVE Fits(ep2, log, past)
    <3>1. Fits(ep, log, past)
      BY <1>3, <1>5, <2>5
    <3>2. Snapshot(f.base, f.content, log, past, ep.dropped)
      BY <1>3, <1>4, <1>7, <2>3, <3>1, SnapshotOfCurrent
    <3>3. ASSUME Unrepeated(log, past) PROVE Covered(ep2, log)
      BY <1>3, <1>4, <1>6, <1>7, <2>1, <2>2, <2>3, <3>1, <3>2, <3>3, CheckpointCovers
    <3> QED
      BY <1>3, <1>4, <2>2, <3>1, <3>3, CutFits
  <2>6. OrdinalsOK(ep2)
    BY <1>3, <2>2, CutOrdinals
  <2>7. ep2 \in Episode /\ ep2.version = ep.version /\ ep2.runs = ep.runs
    BY <2>2 DEF CutAt
  <2> QED
    BY <1>1, <1>2, <1>3, <1>5, <2>2, <2>4, <2>5, <2>6, <2>7, GotoInv DEF ep
<1>10. CASE Goto(p, w, "bound", TruncateEpisodeMessages(ep))
  <2> DEFINE ep2 == TruncateEpisodeMessages(ep)
  <2>1. PICK k \in 1 .. Len(ep.messages) + 1 : CutAt(ep2, ep, k)
    BY <1>3, <1>4, TruncateCuts
  <2>2. /\ ep2.content = ep.content
        /\ ep2.dropped = ep.dropped \cup (MessagesOf(ep.messages) \ MessagesOf(ep2.messages))
    BY <1>3, <1>4, TruncateCuts
  <2>3. Goto(p, w, "bound", ep2)
    BY <1>10
  <2> HIDE DEF ep2, ep
  <2>4. ASSUME ep.version = store.version PROVE Fits(ep2, log, past)
    <3>1. Fits(ep, log, past)
      BY <1>3, <1>5, <2>4
    <3>2. ASSUME Unrepeated(log, past) PROVE Covered(ep2, log)
      <4>1. Covered(ep, log)
        BY <3>1, <3>2 DEF Fits
      <4> QED
        BY <2>2, <4>1, DropCovers
    <3> QED
      BY <1>3, <1>4, <2>1, <3>1, <3>2, CutFits
  <2>5. OrdinalsOK(ep2) /\ ep.dropped \subseteq ep2.dropped
    BY <1>3, <2>1, <2>2, CutOrdinals
  <2>6. ep2 \in Episode /\ ep2.version = ep.version /\ ep2.runs = ep.runs
    BY <2>1 DEF CutAt
  <2> QED
    BY <1>1, <1>2, <1>3, <1>5, <2>3, <2>4, <2>5, <2>6, GotoInv DEF ep
<1> QED
  BY <1>8, <1>9, <1>10

\* A saved episode is the old one under the next version.
LEMMA SavedFields ==
    ASSUME NEW ep \in Episode
    PROVE  /\ Saved(ep) \in Episode
           /\ Saved(ep).version = ep.version + 1
           /\ Saved(ep).messages = ep.messages /\ Saved(ep).content = ep.content
           /\ Saved(ep).dropped = ep.dropped /\ Saved(ep).runs = ep.runs
           /\ Saved(ep).eventCount = ep.eventCount /\ Saved(ep).cursors = ep.cursors
           /\ OrdinalsOK(ep) => OrdinalsOK(Saved(ep))
           /\ \A L, P : Fits(ep, L, P) => Fits(Saved(ep), L, P)
<1>1. /\ Saved(ep) \in Episode
      /\ Saved(ep).version = ep.version + 1
      /\ Saved(ep).messages = ep.messages /\ Saved(ep).content = ep.content
      /\ Saved(ep).dropped = ep.dropped /\ Saved(ep).runs = ep.runs
      /\ Saved(ep).eventCount = ep.eventCount /\ Saved(ep).cursors = ep.cursors
  <2> DEFINE v == ep.version + 1
  <2>1. v \in Nat
    BY DEF Episode
  <2>2. Saved(ep) = [ep EXCEPT !.version = v]
    BY DEF Saved
  <2> HIDE DEF v
  <2>3. Saved(ep) \in Episode
    BY <2>1, <2>2 DEF Episode
  <2>4. /\ Saved(ep).version = v
        /\ Saved(ep).messages = ep.messages /\ Saved(ep).content = ep.content
        /\ Saved(ep).dropped = ep.dropped /\ Saved(ep).runs = ep.runs
        /\ Saved(ep).eventCount = ep.eventCount /\ Saved(ep).cursors = ep.cursors
    BY <2>2 DEF Episode
  <2> QED
    BY <2>3, <2>4 DEF v
<1>2. OrdinalsOK(ep) => OrdinalsOK(Saved(ep))
  BY <1>1 DEF OrdinalsOK
<1>3. ASSUME NEW L, NEW P, Fits(ep, L, P) PROVE Fits(Saved(ep), L, P)
  BY <1>1, <1>3 DEF Fits, RunsFit, Covered
<1> QED
  BY <1>1, <1>2, <1>3

\* The prompt cap: nothing to cut, a shortened episode saved, or a conflict.
LEMMA BoundInv ==
    ASSUME EpisodeInv, NEW p \in Procs, NEW w \in Workers, BoundEpisodePrompt(p, w)
    PROVE  EpisodeInv'
<1> DEFINE ep       == worker[p][w].ep
           overhead == EstimateEpisodeTokens(ep.content, <<>>) + 1
           budget   == (3 * MaxPromptTokens) \div 4 - overhead
           tail     == RecentMessageTail(ep.messages, budget)
           trimmed  == [ep EXCEPT !.messages = tail,
                          !.dropped = @ \cup (MessagesOf(ep.messages) \ MessagesOf(tail)),
                          !.tokens = EstimateEpisodeTokens(ep.content, tail)]
<1>1. /\ worker[p][w].pc = "bound"
      /\ UNCHANGED <<conf, flight, summary, log, past, extracts, faults>>
  BY DEF BoundEpisodePrompt, At
<1>2. /\ worker[p][w] \in BusyWorker /\ Holds(p, w) /\ ep \in Episode /\ OrdinalsOK(ep)
      /\ worker[p][w].slice \notin DOMAIN ep.runs
      /\ worker[p][w].reset => ep.messages = <<>>
      /\ ep.version = store.version => Fits(ep, IF worker[p][w].reset THEN <<>> ELSE log, past)
      /\ ep.version = store.version /\ ~ worker[p][w].reset => store.dropped \subseteq ep.dropped
  BY <1>1, CopyFacts
<1>3. Types /\ CopyOrdinals(worker[p][w]) /\ CountersOK /\ log \in Seq(Run) /\ store \in Episode
  BY <1>1 DEF EpisodeInv, Types, CountersOK
<1>4. \/ Goto(p, w, "call", ep) /\ UNCHANGED store
      \/ tail # ep.messages /\ Saves(trimmed) /\ store' = Saved(trimmed)
           /\ Goto(p, w, "call", Saved(trimmed))
      \/ Conflict(p, w) /\ UNCHANGED store
  BY DEF BoundEpisodePrompt
<1>5. CASE Goto(p, w, "call", ep) /\ UNCHANGED store
  <2>1. BackgroundKept
    BY <1>1, <1>5, BackgroundUnchanged DEF StoreMoves
  <2>2. ep.dropped \subseteq ep.dropped
    OBVIOUS
  <2> QED
    BY <1>1, <1>2, <1>5, <2>1, <2>2, GotoInv
<1>6. CASE Conflict(p, w) /\ UNCHANGED store
  <2>1. StoreMoves /\ BackgroundKept
    BY <1>1, <1>6, BackgroundUnchanged DEF StoreMoves
  <2>2. PICK k : /\ WorkerBecomes(p, w, k) /\ CopyOrdinals(k)
                 /\ \A st, L, P : CopyOK(k, st, L, P)
    BY <1>2, <1>3, <1>6, ConflictBecomes
  <2>3. CopyOK(k, store', log', past')
    BY <2>2
  <2> QED
    BY <1>2, <1>3, <2>1, <2>2, <2>3, HolderStep
<1>7. CASE /\ tail # ep.messages /\ Saves(trimmed) /\ store' = Saved(trimmed)
           /\ Goto(p, w, "call", Saved(trimmed))
  <2>1. ep.messages \in Seq(Message)
    BY <1>2 DEF Episode
  <2> HIDE DEF budget
  <2>2. PICK j \in DOMAIN ep.messages : tail = Suffix(ep.messages, j)
    BY <1>7, <2>1, RecentTailIsSuffix
  <2>3. j \in 1 .. Len(ep.messages) + 1 /\ ep.messages # <<>>
    BY <2>1
  <2>4. /\ CutAt(trimmed, ep, j) /\ trimmed.content = ep.content
        /\ trimmed.dropped =
             ep.dropped \cup (MessagesOf(ep.messages) \ MessagesOf(trimmed.messages))
    <3>1. trimmed =
            [ep EXCEPT !.messages = Suffix(ep.messages, j),
               !.dropped = @ \cup (MessagesOf(ep.messages) \ MessagesOf(Suffix(ep.messages, j))),
               !.tokens = EstimateEpisodeTokens(ep.content, Suffix(ep.messages, j))]
      BY <2>2
    <3>2. ep \in Episode
      BY <1>2
    <3> HIDE DEF trimmed, tail, ep
    <3> QED
      BY <2>3, <3>1, <3>2, DropCuts, Zenon
  <2> HIDE DEF trimmed, tail, ep
  <2>5. /\ trimmed \in Episode /\ trimmed.version = ep.version /\ trimmed.runs = ep.runs
        /\ OrdinalsOK(trimmed)
    BY <1>2, <2>4, CutOrdinals DEF CutAt
  <2>6. ep.version = store.version /\ ~ worker[p][w].reset
    BY <1>2, <1>7, <2>3, <2>5 DEF Saves
  <2>7. Fits(ep, log, past) /\ store.dropped \subseteq trimmed.dropped
    BY <1>2, <2>4, <2>6
  <2>8. Fits(trimmed, log, past)
    <3>1. ASSUME Unrepeated(log, past) PROVE Covered(trimmed, log)
      <4>1. Covered(ep, log)
        BY <2>7, <3>1 DEF Fits
      <4> QED
        BY <2>4, <4>1, DropCovers
    <3> QED
      BY <1>2, <1>3, <2>4, <2>7, <3>1, CutFits
  <2> DEFINE new == Saved(trimmed)
  <2>9. /\ new \in Episode /\ new.version = trimmed.version + 1 /\ new.messages = trimmed.messages
        /\ new.dropped = trimmed.dropped /\ new.runs = trimmed.runs
        /\ OrdinalsOK(new) /\ Fits(new, log, past)
    BY <2>5, <2>8, SavedFields
  <2>10. store' = new /\ Goto(p, w, "call", new)
    BY <1>7
  <2> HIDE DEF new
  <2>11. StoreMoves
    <3>1. AppendedOnce'
      BY <1>1 DEF EpisodeInv, AppendedOnce
    <3>2. Evolves(log, past, store.dropped, log', past', store'.dropped)
      BY <1>1, <2>7, <2>9, <2>10 DEF Evolves
    <3>3. store'.version = store.version + 1
      BY <2>5, <2>6, <2>9, <2>10
    <3>4. log' \in Seq(Run) /\ past' \in SUBSET Slices /\ Fits(store', log', past')
      BY <1>1, <1>3, <2>9, <2>10 DEF Types
    <3> QED
      BY <2>9, <2>10, <3>1, <3>2, <3>3, <3>4 DEF StoreMoves
  <2>12. BackgroundKept
    BY <1>1, <2>11, BackgroundUnchanged
  <2>13. PICK k \in BusyWorker :
           /\ WorkerBecomes(p, w, k) /\ k.pc = "call" /\ k.ep = new
           /\ k.slice = worker[p][w].slice /\ k.reset = worker[p][w].reset
    BY <1>2, <1>3, <2>9, <2>10, GotoBecomes DEF HoldingLabels
  <2>14. CopyOrdinals(k)
    BY <2>9, <2>13 DEF CopyOrdinals
  <2>15. CopyOK(k, store', log', past')
    <3>1. new.version <= new.version
      BY <2>9 DEF Episode
    <3>2. k.slice \notin DOMAIN new.runs
      BY <1>2, <2>5, <2>9, <2>13 DEF ep
    <3> QED
      BY <1>1, <2>6, <2>9, <2>10, <2>13, <3>1, <3>2 DEF CopyOK
  <2> QED
    BY <1>2, <1>3, <2>11, <2>12, <2>13, <2>14, <2>15, HolderStep
<1> QED
  BY <1>4, <1>5, <1>6, <1>7

\* Starting background work, or leaving what is there.
LEMMA StartedOK ==
    ASSUME NEW ep \in Episode, NEW L, NEW P, NEW st,
           Snapshot(ep.messages, ep.content \cup MessagesOf(ep.messages), L, P, st.dropped)
    PROVE  /\ \A f \in Flight :
                /\ Started(f, ep) \in Flight
                /\ FlightOK(f, L, P, st.dropped) => FlightOK(Started(f, ep), L, P, st.dropped)
           /\ \A f \in Summary :
                /\ Started(f, ep) \in Summary
                /\ SummaryOK(f, st, L, P) => SummaryOK(Started(f, ep), st, L, P)
                /\ Started(f, ep).state = "persist" <=> f.state = "persist"
<1> DEFINE new == [state |-> "running", base |-> ep.messages,
                   content |-> ep.content \cup MessagesOf(ep.messages)]
<1>1. ep.messages \in Seq(Message) /\ ep.content \cup MessagesOf(ep.messages) \in SUBSET Message
  BY DEF Episode, MessagesOf
<1>2. new \in Flight /\ new \in Summary
  BY <1>1 DEF Flight, Summary
<1>3. /\ new.state = "running" /\ new.base = ep.messages
      /\ new.content = ep.content \cup MessagesOf(ep.messages)
  OBVIOUS
<1>4. \A f : Started(f, ep) = IF f.state = "none" THEN new ELSE f
  BY DEF Started
<1> HIDE DEF new
<1>5. FlightOK(new, L, P, st.dropped) /\ SummaryOK(new, st, L, P)
  BY <1>3 DEF FlightOK, SummaryOK
<1> QED
  BY <1>2, <1>3, <1>4, <1>5

\* A slice that is not in the run cache was not saved within the window.
LEMMA AppendKeepsOnce ==
    ASSUME NEW L \in Seq(Run), NEW r \in Run, NEW ep, RunsFit(ep, L),
           r.slice \notin DOMAIN ep.runs,
           \A i, j \in DOMAIN L : i < j /\ j - i <= RunLimit => L[i].slice # L[j].slice
    PROVE  \A i, j \in DOMAIN Append(L, r) :
             i < j /\ j - i <= RunLimit => Append(L, r)[i].slice # Append(L, r)[j].slice
<1> DEFINE M == Append(L, r)
           n == Len(L)
<1>1. /\ n \in Nat /\ DOMAIN M = 1 .. n + 1 /\ DOMAIN L = 1 .. n
      /\ M[n + 1] = r /\ \A j \in 1 .. n : M[j] = L[j]
  OBVIOUS
<1>2. RunLimit \in Nat \ {0}
  BY EpisodeAssumption
<1>3. /\ Window(L) = {i \in 1 .. n : i > n - RunLimit}
      /\ DOMAIN ep.runs = {L[i].slice : i \in Window(L)}
  BY <1>1 DEF Window, RunsFit
<1> HIDE DEF M, n
<1>4. ASSUME NEW i \in DOMAIN M, NEW j \in DOMAIN M, i < j, j - i <= RunLimit
      PROVE  M[i].slice # M[j].slice
  <2>1. i \in 1 .. n /\ M[i] = L[i]
    BY <1>1, <1>4
  <2>2. CASE j \in 1 .. n
    BY <1>1, <1>4, <2>1, <2>2
  <2>3. CASE j = n + 1
    <3>1. i \in Window(L)
      BY <1>1, <1>2, <1>3, <1>4, <2>1, <2>3
    <3> QED
      BY <1>1, <1>3, <2>1, <2>3, <3>1
  <2> QED
    BY <1>1, <2>2, <2>3
<1> QED
  BY <1>4 DEF M

\* The log after a save: the run's episode fits it, whether it was extended or reset.
LEMMA SaveMoves ==
    ASSUME EpisodeInv, NEW p \in Procs, NEW w \in Workers, NEW a \in Answers, NEW u \in Usages,
           worker[p][w].pc = "call", NEW s, s = worker[p][w].slice,
           NEW ep, ep = AppendRun(worker[p][w].ep, s, a, u), Saves(ep),
           store' = Saved(ep),
           log' = Append(IF worker[p][w].reset THEN <<>> ELSE log, [slice |-> s, answer |-> a]),
           past' = past \cup (IF worker[p][w].reset THEN SlicesOf(log) ELSE {})
    PROVE  /\ StoreMoves
           /\ ep \in Episode
           /\ Snapshot(ep.messages, ep.content \cup MessagesOf(ep.messages), log', past',
                       store'.dropped)
<1> DEFINE old == worker[p][w].ep
           reset == worker[p][w].reset
           base == IF reset THEN <<>> ELSE log
           r == [slice |-> s, answer |-> a]
<1>1. /\ old \in Episode /\ OrdinalsOK(old) /\ s \in Slices /\ s \notin DOMAIN old.runs
      /\ old.version = store.version => Fits(old, base, past)
      /\ old.version = store.version /\ ~ reset => store.dropped \subseteq old.dropped
  BY CopyFacts
<1>2. /\ log \in Seq(Run) /\ past \in SUBSET Slices /\ store \in Episode
      /\ base \in Seq(Run) /\ AppendedOnce
  BY DEF EpisodeInv, Types
<1>3. /\ ep \in Episode /\ OrdinalsOK(ep) /\ ep.version = old.version /\ ep.dropped = old.dropped
      /\ ep.messages = old.messages \o <<Prompt(s), Response(s, a)>>
  <2>1. ep = AppendRun(old, s, a, u)
    OBVIOUS
  <2> HIDE DEF old
  <2>2. LET ep2 == AppendRun(old, s, a, u)
        IN /\ ep2 \in Episode /\ OrdinalsOK(ep2)
           /\ ep2.version = old.version /\ ep2.dropped = old.dropped
           /\ ep2.messages = old.messages \o <<Prompt(s), Response(s, a)>>
    BY <1>1, AppendRunFields
  <2> QED
    BY <2>1, <2>2
<1>4. old.version = store.version /\ Fits(old, base, past)
  BY <1>1, <1>3 DEF Saves
<1>5. r \in Run /\ r.slice = s /\ r.answer = a
  BY <1>1 DEF Run
<1>6. log' = Append(base, r) /\ log' \in Seq(Run)
  BY <1>2, <1>5
<1>7. past' \in SUBSET Slices
  <2>1. SlicesOf(log) \subseteq Slices
    <3>1. \A i \in DOMAIN log : log[i] \in Run
      BY <1>2
    <3> QED
      BY <3>1 DEF SlicesOf, Run
  <2> QED
    BY <1>2, <2>1
<1>8. reset => base = <<>> /\ past' = past \cup SlicesOf(log)
  OBVIOUS
<1>9. ~ reset => base = log /\ past' = past
  OBVIOUS
<1> HIDE DEF old, reset, base, r
<1>10. ASSUME Unrepeated(Append(base, r), past') PROVE Covered(old, base)
  <2>1. CASE reset
    <3>1. 2 * Len(<<>>) = 0
      OBVIOUS
    <3> QED
      BY <1>8, <2>1, <3>1 DEF Covered
  <2>2. CASE ~ reset
    <3>1. Unrepeated(base, past')
      BY <1>2, <1>5, <1>10, AppendUnrepeated
    <3> QED
      BY <1>4, <1>9, <2>2, <3>1 DEF Fits
  <2> QED
    BY <2>1, <2>2
<1>11. Fits(ep, log', past')
  <2>1. r = [slice |-> s, answer |-> a] /\ ep = AppendRun(old, s, a, u)
    BY DEF r, old
  <2>2. Fits(AppendRun(old, s, a, u), Append(base, r), past')
    BY <1>1, <1>2, <1>4, <1>10, <2>1, AppendFits, Zenon
  <2> QED
    BY <1>6, <2>1, <2>2, Zenon
<1>12. /\ Saved(ep) \in Episode /\ Saved(ep).version = store.version + 1
       /\ Saved(ep).dropped = ep.dropped
       /\ OrdinalsOK(Saved(ep)) /\ Fits(Saved(ep), log', past')
  <2>1. ep \in Episode /\ OrdinalsOK(ep) /\ ep.version = store.version
    BY <1>3, <1>4
  <2>2. OrdinalsOK(Saved(ep)) /\ Fits(Saved(ep), log', past')
    BY <1>11, <2>1, SavedFields, Zenon
  <2>3. Saved(ep) \in Episode /\ Saved(ep).version = ep.version + 1 /\ Saved(ep).dropped = ep.dropped
    BY <2>1, SavedFields, Zenon
  <2> QED
    BY <2>1, <2>2, <2>3
<1>13. AppendedOnce'
  <2>1. \A i, j \in DOMAIN base : i < j /\ j - i <= RunLimit => base[i].slice # base[j].slice
    <3>1. CASE reset
      BY <1>8, <3>1
    <3>2. CASE ~ reset
      BY <1>2, <1>9, <3>2 DEF AppendedOnce
    <3> QED
      BY <3>1, <3>2
  <2>2. RunsFit(old, base)
    BY <1>4 DEF Fits
  <2>3. \A i, j \in DOMAIN Append(base, r) :
          i < j /\ j - i <= RunLimit => Append(base, r)[i].slice # Append(base, r)[j].slice
    BY <1>1, <1>2, <1>5, <2>1, <2>2, AppendKeepsOnce
  <2> QED
    BY <1>6, <2>3 DEF AppendedOnce
<1>14. Evolves(log, past, store.dropped, log', past', store'.dropped)
  <2>1. CASE reset
    BY <1>5, <1>6, <1>8, <2>1 DEF Evolves
  <2>2. CASE ~ reset
    <3>1. store.dropped \subseteq store'.dropped
      BY <1>1, <1>3, <1>4, <1>12, <2>2
    <3> QED
      BY <1>5, <1>6, <1>9, <2>2, <3>1 DEF Evolves
  <2> QED
    BY <2>1, <2>2
<1>15. StoreMoves
  BY <1>6, <1>7, <1>12, <1>13, <1>14 DEF StoreMoves
<1>16. ep.messages # <<>>
  <2>1. old.messages \in Seq(Message)
    BY <1>1 DEF Episode
  <2>2. Prompt(s) \in Message /\ Response(s, a) \in Message
    BY <1>1 DEF Prompt, Response, Message
  <2>3. <<Prompt(s), Response(s, a)>> \in Seq(Message) /\ <<Prompt(s), Response(s, a)>> # <<>>
    BY <2>2
  <2>4. old.messages \o <<Prompt(s), Response(s, a)>> # <<>>
    BY <2>1, <2>3, SMTT(30)
  <2> QED
    BY <1>3, <2>4
<1>17. ep.dropped \subseteq store'.dropped
  BY <1>12
<1> QED
  BY <1>3, <1>6, <1>11, <1>15, <1>16, <1>17, SnapshotOfCurrent

\* The answer is saved under the version of the copy, or the copy is given up.
LEMMA SaveRunInv ==
    ASSUME EpisodeInv, NEW p \in Procs, NEW w \in Workers, NEW a \in Answers, NEW u \in Usages,
           SaveRun(p, w, a, u)
    PROVE  EpisodeInv'
<1> DEFINE s  == worker[p][w].slice
           ep == AppendRun(worker[p][w].ep, s, a, u)
<1>1. worker[p][w].pc = "call" /\ UNCHANGED <<conf, extracts, faults>>
  BY DEF SaveRun, At
<1>2. /\ Types /\ CountersOK /\ Holds(p, w) /\ worker[p][w] \in BusyWorker
      /\ CopyOrdinals(worker[p][w])
  BY <1>1, CopyFacts DEF EpisodeInv, Types, CountersOK
<1>3. CASE Saves(ep)
  <2>1. /\ store' = Saved(ep)
        /\ log' = Append(IF worker[p][w].reset THEN <<>> ELSE log, [slice |-> s, answer |-> a])
        /\ past' = past \cup (IF worker[p][w].reset THEN SlicesOf(log) ELSE {})
        /\ Return(p, w)
        /\ flight' = [flight EXCEPT ![p] = Started(flight[p], ep)] \/ flight' = flight
        /\ summary' = [summary EXCEPT ![p] = Started(summary[p], ep)] \/ summary' = summary
    <3>1. flight \in [Procs -> Flight] /\ summary \in [Procs -> Summary]
      BY <1>2 DEF Types
    <3>2. [flight EXCEPT ![p] = flight[p]] = flight /\ [summary EXCEPT ![p] = summary[p]] = summary
      BY <3>1
    <3> HIDE DEF ep
    <3> QED
      BY <1>3, <3>2 DEF SaveRun, ep
  <2>2. /\ StoreMoves /\ ep \in Episode
        /\ Snapshot(ep.messages, ep.content \cup MessagesOf(ep.messages), log', past',
                    store'.dropped)
    <3>1. PICK s0 : s0 = s
      OBVIOUS
    <3>2. PICK ep0 : ep0 = ep
      OBVIOUS
    <3>3. /\ ep0 = AppendRun(worker[p][w].ep, s0, a, u) /\ s0 = worker[p][w].slice /\ Saves(ep0)
          /\ store' = Saved(ep0)
          /\ log' = Append(IF worker[p][w].reset THEN <<>> ELSE log,
                           [slice |-> s0, answer |-> a])
      BY <1>3, <2>1, <3>1, <3>2
    <3> HIDE DEF ep, s
    <3>4. /\ StoreMoves /\ ep0 \in Episode
          /\ Snapshot(ep0.messages, ep0.content \cup MessagesOf(ep0.messages), log', past',
                      store'.dropped)
      BY <1>1, <2>1, <3>3, SaveMoves
    <3> QED
      BY <3>2, <3>4
  <2>3. Carried
    BY <2>2, MovesCarry
  <2>4. BackgroundKept
    <3>1. /\ flight \in [Procs -> Flight] /\ summary \in [Procs -> Summary]
          /\ \A q \in Procs : FlightOK(flight[q], log', past', store'.dropped)
          /\ \A q \in Procs : SummaryOK(summary[q], store', log', past')
      BY <1>2, <2>3 DEF Types, Carried
    <3> HIDE DEF ep
    <3>2. /\ Started(flight[p], ep) \in Flight
          /\ FlightOK(Started(flight[p], ep), log', past', store'.dropped)
      BY <2>2, <3>1, StartedOK
    <3>3. /\ Started(summary[p], ep) \in Summary
          /\ SummaryOK(Started(summary[p], ep), store', log', past')
          /\ Started(summary[p], ep).state = "persist" <=> summary[p].state = "persist"
      BY <2>2, <3>1, StartedOK
    <3>4. /\ flight' \in [Procs -> Flight]
          /\ \A q \in Procs : FlightOK(flight'[q], log', past', store'.dropped)
      BY <2>1, <3>1, <3>2
    <3>5. /\ summary' \in [Procs -> Summary]
          /\ \A q \in Procs : SummaryOK(summary'[q], store', log', past')
          /\ \A q \in Procs : summary'[q].state = "persist" <=> summary[q].state = "persist"
      BY <2>1, <3>1, <3>3
    <3> QED
      BY <3>4, <3>5 DEF BackgroundKept
  <2>5. /\ WorkerBecomes(p, w, IdleWorker) /\ CopyOrdinals(IdleWorker)
        /\ CopyOK(IdleWorker, store', log', past')
    BY <2>1, ReturnBecomes
  <2> QED
    BY <1>2, <2>2, <2>4, <2>5, HolderStep
<1>4. CASE ~ Saves(ep)
  <2>1. Conflict(p, w) /\ UNCHANGED <<store, log, past, flight, summary>>
    BY <1>4 DEF SaveRun
  <2>2. StoreMoves /\ BackgroundKept
    BY <2>1, BackgroundUnchanged DEF StoreMoves
  <2>3. PICK k : /\ WorkerBecomes(p, w, k) /\ CopyOrdinals(k)
                 /\ \A st, L, P : CopyOK(k, st, L, P)
    BY <1>2, <2>1, ConflictBecomes
  <2>4. CopyOK(k, store', log', past')
    BY <2>3
  <2> QED
    BY <1>2, <2>2, <2>3, <2>4, HolderStep
<1> QED
  BY <1>3, <1>4

\* A failed call stores nothing.
LEMMA FailInv ==
    ASSUME EpisodeInv, NEW p \in Procs, NEW w \in Workers, Fail(p, w)
    PROVE  EpisodeInv'
<1>1. /\ worker[p][w].pc \in {"load", "prepare", "bound", "call"} /\ Return(p, w)
      /\ UNCHANGED <<store, conf, flight, summary, log, past, extracts>>
  BY DEF Fail
<1>2. Holds(p, w) /\ StoreMoves
  BY <1>1 DEF Holds, StoreMoves
<1>3. BackgroundKept
  BY <1>1, <1>2, BackgroundUnchanged
<1>4. CountersOK
  BY <1>1, EpisodeAssumption DEF Fail, EpisodeInv, Types, CountersOK
<1>5. /\ WorkerBecomes(p, w, IdleWorker) /\ CopyOrdinals(IdleWorker)
      /\ CopyOK(IdleWorker, store', log', past')
  BY <1>1, ReturnBecomes
<1> QED
  BY <1>2, <1>3, <1>4, <1>5, HolderStep

\* A step that touches no worker.
LEMMA BackgroundInv ==
    ASSUME EpisodeInv, StoreMoves, CountersOK, UNCHANGED worker,
           flight' \in [Procs -> Flight], summary' \in [Procs -> Summary],
           \A q \in Procs : FlightOK(flight'[q], log', past', store'.dropped),
           \A q \in Procs : SummaryOK(summary'[q], store', log', past'),
           lease' \in [Procs -> Workers \cup {Nobody, Summariser}], LeaseOK'
    PROVE  EpisodeInv'
<1>1. Carried
  BY MovesCarry
<1>2. Types'
  BY <1>1 DEF EpisodeInv, Types, Carried, CountersOK
<1>3. \A p \in Procs, w \in Workers :
        CopyOrdinals(worker'[p][w]) /\ CopyOK(worker'[p][w], store', log', past')
  BY <1>1 DEF EpisodeInv, Carried
<1> QED
  BY <1>1, <1>2, <1>3 DEF EpisodeInv, Carried

\* A step that changes only the flight of one process.
LEMMA FlightStep ==
    ASSUME EpisodeInv, NEW p \in Procs, NEW f \in Flight, FlightOK(f, log, past, store.dropped),
           flight' = [flight EXCEPT ![p] = f],
           UNCHANGED <<store, conf, lease, worker, summary, log, past, extracts, faults>>
    PROVE  EpisodeInv'
<1>1. /\ flight \in [Procs -> Flight] /\ summary \in [Procs -> Summary]
      /\ lease \in [Procs -> Workers \cup {Nobody, Summariser}]
      /\ \A q \in Procs : FlightOK(flight[q], log, past, store.dropped)
      /\ \A q \in Procs : SummaryOK(summary[q], store, log, past)
  BY DEF EpisodeInv, Types
<1>2. StoreMoves /\ CountersOK
  BY DEF StoreMoves, CountersOK, EpisodeInv, Types
<1>3. LeaseOK'
  BY DEF EpisodeInv, LeaseOK, Holds
<1>4. /\ flight' \in [Procs -> Flight]
      /\ \A q \in Procs : FlightOK(flight'[q], log, past, store.dropped)
  BY <1>1
<1>5. /\ \A q \in Procs : FlightOK(flight'[q], log', past', store'.dropped)
      /\ \A q \in Procs : SummaryOK(summary'[q], store', log', past')
  BY <1>1, <1>4
<1> QED
  BY <1>1, <1>2, <1>3, <1>4, <1>5, BackgroundInv

\* The same for a summary, whose persistence goes with the lease.
LEMMA SummaryStep ==
    ASSUME EpisodeInv, NEW p \in Procs, NEW f \in Summary, StoreMoves, CountersOK,
           SummaryOK(f, store', log', past'),
           summary' = [summary EXCEPT ![p] = f],
           UNCHANGED <<worker, flight>>,
           \/ f.state # "persist" /\ summary[p].state # "persist" /\ lease' = lease
           \/ /\ f.state # "persist" /\ summary[p].state = "persist"
              /\ lease' = [lease EXCEPT ![p] = Nobody]
           \/ f.state = "persist" /\ lease[p] = Nobody /\ lease' = [lease EXCEPT ![p] = Summariser]
    PROVE  EpisodeInv'
<1>1. /\ flight \in [Procs -> Flight] /\ summary \in [Procs -> Summary]
      /\ lease \in [Procs -> Workers \cup {Nobody, Summariser}] /\ Carried
  BY MovesCarry DEF EpisodeInv, Types
<1>2. /\ summary' \in [Procs -> Summary] /\ summary'[p] = f
      /\ \A q \in Procs : q # p => summary'[q] = summary[q]
  BY <1>1
<1>3. lease' \in [Procs -> Workers \cup {Nobody, Summariser}]
  BY <1>1
<1>4. LeaseOK'
  <2>1. Nobody \notin Workers /\ Summariser \notin Workers /\ Nobody # Summariser
    BY EpisodeAssumption
  <2>2. /\ \A q \in Procs, v \in Workers : Holds(q, v) <=> lease[q] = v
        /\ \A q \in Procs : summary[q].state = "persist" <=> lease[q] = Summariser
    BY DEF EpisodeInv, LeaseOK
  <2>3. \A q \in Procs, v \in Workers : lease'[q] = v <=> lease[q] = v
    BY <1>1, <2>1, <2>2
  <2>4. \A q \in Procs : summary'[q].state = "persist" <=> lease'[q] = Summariser
    BY <1>1, <1>2, <2>1, <2>2
  <2>5. \A q \in Procs, v \in Workers : Holds(q, v)' <=> Holds(q, v)
    BY DEF Holds
  <2> QED
    BY <2>2, <2>3, <2>4, <2>5 DEF LeaseOK
<1>5. \A q \in Procs : SummaryOK(summary'[q], store', log', past')
  BY <1>1, <1>2 DEF Carried
<1>6. \A q \in Procs : FlightOK(flight'[q], log', past', store'.dropped)
  BY <1>1 DEF Carried
<1> QED
  BY <1>1, <1>2, <1>3, <1>4, <1>5, <1>6, BackgroundInv

\* A flight is started from the worker's copy, which may be stale by now.
LEMMA PrepareStartInv ==
    ASSUME EpisodeInv, NEW p \in Procs, NEW w \in Workers, PrepareStart(p, w)
    PROVE  EpisodeInv'
<1> DEFINE ep == worker[p][w].ep
           f  == Started(flight[p], ep)
<1>1. /\ worker[p][w].pc = "prepare" /\ ep.messages # <<>>
      /\ flight' = [flight EXCEPT ![p] = f]
      /\ UNCHANGED <<store, conf, lease, worker, summary, log, past, extracts, faults>>
  BY DEF PrepareStart, At, Compacts
<1>2. ep \in Episode
  BY <1>1, CopyFacts
<1>3. Snapshot(ep.messages, ep.content \cup MessagesOf(ep.messages), log, past, store.dropped)
  <2>1. CopyOK(worker[p][w], store, log, past)
    BY DEF EpisodeInv
  <2> QED
    BY <1>1, <2>1 DEF CopyOK
<1>4. flight[p] \in Flight /\ FlightOK(flight[p], log, past, store.dropped)
  BY DEF EpisodeInv, Types
<1> HIDE DEF ep
<1>5. f \in Flight /\ FlightOK(f, log, past, store.dropped)
  BY <1>2, <1>3, <1>4, StartedOK
<1> HIDE DEF f
<1> QED
  BY <1>1, <1>5, FlightStep

\* The compaction call ends.
LEMMA CompactionEndsInv ==
    ASSUME EpisodeInv, NEW p \in Procs, NEW ok \in BOOLEAN, CompactionEnds(p, ok)
    PROVE  EpisodeInv'
<1> DEFINE f == [state |-> "done", ok |-> ok, base |-> flight[p].base,
                 content |-> flight[p].content]
<1>1. flight[p] \in Flight /\ FlightOK(flight[p], log, past, store.dropped)
  BY DEF EpisodeInv, Types
<1>2. flight[p].state = "running" /\ flight' = [flight EXCEPT ![p] = f]
  BY DEF CompactionEnds
<1>3. f \in Flight /\ FlightOK(f, log, past, store.dropped)
  BY <1>1, <1>2 DEF Flight, NoFlight, FlightOK
<1>4. UNCHANGED <<store, conf, lease, worker, summary, log, past, extracts, faults>>
  BY DEF CompactionEnds
<1> HIDE DEF f
<1> QED
  BY <1>2, <1>3, <1>4, FlightStep

\* The summary call ends.
LEMMA SummaryEndsInv ==
    ASSUME EpisodeInv, NEW p \in Procs, NEW ok \in BOOLEAN, SummaryEnds(p, ok)
    PROVE  EpisodeInv'
<1> DEFINE f == [state |-> "computed", ok |-> ok, base |-> summary[p].base,
                 content |-> summary[p].content]
<1>1. summary[p] \in Summary /\ SummaryOK(summary[p], store, log, past)
  BY DEF EpisodeInv, Types
<1>2. summary[p].state = "running" /\ summary' = [summary EXCEPT ![p] = f]
  BY DEF SummaryEnds
<1>3. UNCHANGED <<store, conf, lease, worker, flight, log, past, extracts, faults>>
  BY DEF SummaryEnds
<1>4. f \in Summary /\ f.state = "computed" /\ SummaryOK(f, store', log', past')
  BY <1>1, <1>2, <1>3 DEF Summary, NoFlight, SummaryOK
<1>5. StoreMoves /\ CountersOK
  BY <1>3 DEF StoreMoves, CountersOK, EpisodeInv, Types
<1> HIDE DEF f
<1> QED
  BY <1>2, <1>3, <1>4, <1>5, SummaryStep

\* The summary is applied to a copy of what is stored now.
LEMMA PersistLoadInv ==
    ASSUME EpisodeInv, NEW p \in Procs, PersistLoad(p)
    PROVE  EpisodeInv'
<1> DEFINE f  == summary[p]
           ep == IF f.ok /\ BaseIsPrefix(f.base, store.messages)
                   THEN ApplyPeriodicSummary(store, f) ELSE store
           new == [state |-> "persist", ep |-> ep]
<1>1. /\ f.state = "computed" /\ lease[p] = Nobody
      /\ lease' = [lease EXCEPT ![p] = Summariser]
      /\ summary' = [summary EXCEPT ![p] = new]
      /\ UNCHANGED <<store, conf, worker, flight, log, past, extracts, faults>>
  BY DEF PersistLoad
<1>2. /\ f \in Summary /\ SummaryOK(f, store, log, past)
      /\ store \in Episode /\ OrdinalsOK(store) /\ Fits(store, log, past) /\ log \in Seq(Run)
  BY DEF EpisodeInv, Types
<1>3. /\ f.base \in Seq(Message) /\ f.content \in SUBSET Message
      /\ Snapshot(f.base, f.content, log, past, store.dropped)
  BY <1>1, <1>2 DEF Summary, NoFlight, SummaryOK
<1>4. /\ ep \in Episode /\ OrdinalsOK(ep) /\ ep.version = store.version
      /\ ep.dropped = store.dropped /\ Fits(ep, log, past)
  <2>1. CASE ~ (f.ok /\ BaseIsPrefix(f.base, store.messages))
    BY <1>2, <2>1
  <2>2. CASE f.ok /\ BaseIsPrefix(f.base, store.messages)
    <3>1. ep = ApplyPeriodicSummary(store, f)
      BY <2>2
    <3> HIDE DEF ep, f
    <3>2. f.base # <<>>
      BY <1>3 DEF Snapshot
    <3>3. PICK k \in 1 .. Len(f.base) : CutAt(ep, store, k)
      BY <1>2, <1>3, <2>2, <3>1, <3>2, SummaryCuts
    <3>4. ep.content = f.content /\ ep.dropped = store.dropped
      BY <1>2, <1>3, <2>2, <3>1, <3>2, SummaryCuts
    <3>5. k <= Len(f.base) + 1 /\ store.dropped \subseteq store.dropped
      BY <1>3
    <3>6. ASSUME Unrepeated(log, past) PROVE Covered(ep, log)
      BY <1>2, <1>3, <2>2, <3>3, <3>4, <3>5, <3>6, CheckpointCovers
    <3>7. Fits(ep, log, past)
      BY <1>2, <3>3, <3>6, CutFits
    <3>8. OrdinalsOK(ep)
      BY <1>2, <3>3, CutOrdinals
    <3> QED
      BY <3>3, <3>4, <3>7, <3>8 DEF CutAt
  <2> QED
    BY <2>1, <2>2
<1> HIDE DEF ep
<1>5. new \in Summary /\ new.state = "persist" /\ new.ep = ep
  BY <1>4 DEF Summary
<1>6. SummaryOK(new, store', log', past')
  <2>1. ep.version <= store.version /\ store.dropped \subseteq ep.dropped
    BY <1>2, <1>4 DEF Episode
  <2> QED
    BY <1>1, <1>4, <1>5, <2>1 DEF SummaryOK
<1>7. StoreMoves /\ CountersOK
  BY <1>1 DEF StoreMoves, CountersOK, EpisodeInv, Types
<1> HIDE DEF new
<1> QED
  BY <1>1, <1>5, <1>6, <1>7, SummaryStep

\* The end of the persistence, whatever it did to the store.
LEMMA SummaryDoneInv ==
    ASSUME EpisodeInv, NEW p \in Procs, summary[p].state = "persist",
           NEW err \in {"none", "conflict", "error", "interrupted"}, SummaryDone(p, err),
           StoreMoves, CountersOK, UNCHANGED <<worker, flight>>
    PROVE  EpisodeInv'
<1> DEFINE f == [state |-> "persisted", persistErr |-> err]
<1>1. summary' = [summary EXCEPT ![p] = f] /\ lease' = [lease EXCEPT ![p] = Nobody]
  BY DEF SummaryDone
<1>2. f \in Summary /\ f.state = "persisted"
  BY DEF Summary
<1>3. SummaryOK(f, store', log', past')
  BY <1>2 DEF SummaryOK
<1> HIDE DEF f
<1> QED
  BY <1>1, <1>2, <1>3, SummaryStep

\* The summary is saved under the version it was applied to, or not at all.
LEMMA PersistSaveInv ==
    ASSUME EpisodeInv, NEW p \in Procs, PersistSave(p)
    PROVE  EpisodeInv'
<1> DEFINE ep == summary[p].ep
<1>1. /\ summary[p].state = "persist"
      /\ UNCHANGED <<conf, worker, flight, log, past, extracts, faults>>
  BY DEF PersistSave
<1>2. CountersOK /\ log \in Seq(Run) /\ past \in SUBSET Slices
  BY <1>1 DEF CountersOK, EpisodeInv, Types
<1>3. CASE ~ Saves(ep)
  <2>1. UNCHANGED store /\ SummaryDone(p, "conflict")
    BY <1>3 DEF PersistSave
  <2>2. StoreMoves
    BY <1>1, <2>1 DEF StoreMoves
  <2> QED
    BY <1>1, <1>2, <2>1, <2>2, SummaryDoneInv
<1>4. CASE Saves(ep)
  <2>1. store' = Saved(ep) /\ SummaryDone(p, "none")
    BY <1>4 DEF PersistSave
  <2>2. ep \in Episode /\ SummaryOK(summary[p], store, log, past)
    <3>1. summary[p] \in Summary
      BY DEF EpisodeInv, Types
    <3> QED
      BY <1>1, <3>1 DEF EpisodeInv, Summary, NoFlight
  <2>3. /\ ep.version = store.version /\ OrdinalsOK(ep) /\ Fits(ep, log, past)
        /\ store.dropped \subseteq ep.dropped
    BY <1>1, <1>4, <2>2 DEF Saves, SummaryOK
  <2> HIDE DEF ep
  <2>4. /\ Saved(ep) \in Episode /\ Saved(ep).version = ep.version + 1
        /\ Saved(ep).dropped = ep.dropped
        /\ OrdinalsOK(Saved(ep)) /\ Fits(Saved(ep), log, past)
    BY <2>2, <2>3, SavedFields
  <2>5. Evolves(log, past, store.dropped, log', past', store'.dropped)
    BY <1>1, <2>1, <2>3, <2>4 DEF Evolves
  <2>6. AppendedOnce'
    BY <1>1 DEF EpisodeInv, AppendedOnce
  <2>7. StoreMoves
    BY <1>1, <1>2, <2>1, <2>3, <2>4, <2>5, <2>6 DEF StoreMoves
  <2> QED
    BY <1>1, <1>2, <2>1, <2>7, SummaryDoneInv
<1> QED
  BY <1>3, <1>4

\* A failed load or save of the summary stores nothing.
LEMMA PersistFailInv ==
    ASSUME EpisodeInv, NEW p \in Procs, NEW err \in {"error", "interrupted"},
           PersistFail(p, err)
    PROVE  EpisodeInv'
<1>1. /\ summary[p].state = "persist" /\ SummaryDone(p, err)
      /\ UNCHANGED <<store, conf, worker, flight, log, past, extracts>>
  BY DEF PersistFail
<1>2. StoreMoves /\ CountersOK
  BY <1>1, EpisodeAssumption DEF PersistFail, StoreMoves, CountersOK, EpisodeInv, Types
<1> QED
  BY <1>1, <1>2, SummaryDoneInv

\* The flight is marked as done.
LEMMA CloseSummaryInv ==
    ASSUME EpisodeInv, NEW p \in Procs, CloseSummary(p)
    PROVE  EpisodeInv'
<1> DEFINE f == [summary[p] EXCEPT !.state = "done"]
<1>1. summary \in [Procs -> Summary]
  BY DEF EpisodeInv, Types
<1>2. /\ summary[p].state = "persisted" /\ summary' = [summary EXCEPT ![p] = f]
      /\ UNCHANGED <<store, conf, lease, worker, flight, log, past, extracts, faults>>
  BY <1>1 DEF CloseSummary
<1>3. summary[p] \in [state : {"persisted", "done"},
                      persistErr : {"none", "conflict", "error", "interrupted"}]
  BY <1>1, <1>2 DEF Summary, NoFlight
<1>4. f \in Summary /\ f.state = "done"
  BY <1>3 DEF Summary
<1>5. SummaryOK(f, store', log', past')
  BY <1>4 DEF SummaryOK
<1>6. StoreMoves /\ CountersOK
  BY <1>2 DEF StoreMoves, CountersOK, EpisodeInv, Types
<1> HIDE DEF f
<1> QED
  BY <1>2, <1>4, <1>5, <1>6, SummaryStep

\* A process loses its memory; nothing stored depends on it.
LEMMA RestartInv ==
    ASSUME EpisodeInv, NEW p \in Procs, NEW c \in Configs, Restart(p, c)
    PROVE  EpisodeInv'
<1> DEFINE idle == [w \in Workers |-> IdleWorker]
           K == {IdleWorker} \cup BusyWorker
<1>1. /\ conf \in [Procs -> Configs] /\ lease \in [Procs -> Workers \cup {Nobody, Summariser}]
      /\ worker \in [Procs -> [Workers -> K]]
      /\ flight \in [Procs -> Flight] /\ summary \in [Procs -> Summary]
      /\ NoFlight \in Flight /\ NoFlight \in Summary /\ IdleWorker \in K
  BY DEF EpisodeInv, Types, Flight, Summary
<1>2. /\ conf' = [conf EXCEPT ![p] = c] /\ lease' = [lease EXCEPT ![p] = Nobody]
      /\ worker' = [worker EXCEPT ![p] = idle]
      /\ flight' = [flight EXCEPT ![p] = NoFlight] /\ summary' = [summary EXCEPT ![p] = NoFlight]
      /\ UNCHANGED <<store, log, past, extracts>>
  BY DEF Restart
<1>3. faults' \in 0 .. MaxFaults
  BY EpisodeAssumption DEF Restart, EpisodeInv, Types
<1> HIDE DEF K
<1>4. /\ conf' \in [Procs -> Configs] /\ lease' \in [Procs -> Workers \cup {Nobody, Summariser}]
      /\ flight' \in [Procs -> Flight] /\ summary' \in [Procs -> Summary]
  BY <1>1, <1>2
<1>5. worker' \in [Procs -> [Workers -> K]]
  BY <1>1, <1>2
<1>6. Types'
  BY <1>2, <1>3, <1>4, <1>5 DEF EpisodeInv, Types, K
<1>7. /\ \A w \in Workers : worker'[p][w] = IdleWorker
      /\ \A q \in Procs, w \in Workers : q # p => worker'[q][w] = worker[q][w]
      /\ \A q \in Procs : q # p => /\ lease'[q] = lease[q] /\ flight'[q] = flight[q]
                                   /\ summary'[q] = summary[q]
      /\ lease'[p] = Nobody /\ flight'[p] = NoFlight /\ summary'[p] = NoFlight
  BY <1>1, <1>2
<1>8. LeaseOK'
  BY <1>7, EpisodeAssumption DEF EpisodeInv, LeaseOK, Holds, IdleWorker, NoFlight
<1>9. ASSUME NEW q \in Procs, NEW w \in Workers
      PROVE  CopyOrdinals(worker'[q][w]) /\ CopyOK(worker'[q][w], store, log, past)
  <2>1. CopyOrdinals(IdleWorker) /\ CopyOK(IdleWorker, store, log, past)
    BY DEF CopyOrdinals, CopyOK, IdleWorker
  <2> QED
    BY <1>7, <2>1, Zenon DEF EpisodeInv
<1>10. ASSUME NEW q \in Procs
       PROVE  /\ FlightOK(flight'[q], log, past, store.dropped)
              /\ SummaryOK(summary'[q], store, log, past)
  <2>1. FlightOK(NoFlight, log, past, store.dropped) /\ SummaryOK(NoFlight, store, log, past)
    BY DEF FlightOK, SummaryOK, NoFlight
  <2> QED
    BY <1>7, <2>1, Zenon DEF EpisodeInv
<1> QED
  BY <1>2, <1>6, <1>8, <1>9, <1>10 DEF EpisodeInv, AppendedOnce
-----------------------------------------------------------------------------
(* The theorems *)

\* Every step preserves the invariant.
LEMMA NextInv == EpisodeInv /\ [Next]_vars => EpisodeInv'
<1> SUFFICES ASSUME EpisodeInv, [Next]_vars PROVE EpisodeInv'
  OBVIOUS
<1>1. CASE UNCHANGED vars
  BY <1>1 DEF vars, EpisodeInv, Types, LeaseOK, Holds, AppendedOnce
<1>2. ASSUME NEW p \in Procs, NEW w \in Workers, NEW s \in Slices, Extract(p, w, s)
      PROVE  EpisodeInv'
  BY <1>2, ExtractInv
<1>3. ASSUME NEW p \in Procs, NEW w \in Workers, WorkerStep(p, w)
      PROVE  EpisodeInv'
  <2>1. CASE AcquireEpisode(p, w)
    BY <2>1, AcquireInv
  <2>2. CASE Load(p, w)
    BY <2>2, LoadInv
  <2>3. CASE PrepareSkip(p, w)
    BY <2>3, PrepareSkipInv
  <2>4. CASE PrepareStart(p, w)
    BY <2>4, PrepareStartInv
  <2>5. CASE PrepareConsume(p, w)
    BY <2>5, PrepareConsumeInv
  <2>6. CASE Recompute(p, w)
    BY <2>6, RecomputeInv
  <2>7. CASE BoundEpisodePrompt(p, w)
    BY <2>7, BoundInv
  <2>8. ASSUME NEW a \in Answers, NEW u \in Usages, SaveRun(p, w, a, u) PROVE EpisodeInv'
    BY <2>8, SaveRunInv
  <2> QED
    BY <1>3, <2>1, <2>2, <2>3, <2>4, <2>5, <2>6, <2>7, <2>8, Zenon DEF WorkerStep
<1>4. ASSUME NEW p \in Procs, NEW w \in Workers, Fail(p, w)
      PROVE  EpisodeInv'
  BY <1>4, FailInv
<1>5. ASSUME NEW p \in Procs, BackgroundStep(p)
      PROVE  EpisodeInv'
  BY <1>5, CompactionEndsInv, SummaryEndsInv, PersistLoadInv, PersistSaveInv, CloseSummaryInv,
     Zenon DEF BackgroundStep
<1>6. ASSUME NEW p \in Procs, NEW err \in {"error", "interrupted"}, PersistFail(p, err)
      PROVE  EpisodeInv'
  BY <1>6, PersistFailInv
<1>7. ASSUME NEW p \in Procs, NEW c \in Configs, Restart(p, c)
      PROVE  EpisodeInv'
  BY <1>7, RestartInv
<1> QED
  BY <1>1, <1>2, <1>3, <1>4, <1>5, <1>6, <1>7, Zenon DEF Next

\* The inductive invariant of the episode: every copy and every background result
\* that can still be stored is what the saved runs make of the episode.
THEOREM EpisodeCorrect == Spec => []EpisodeInv
  BY InitInv, NextInv, PTL DEF Spec

\* The types of the module.
LEMMA InvTypeOK == EpisodeInv => TypeOK
<1> SUFFICES ASSUME EpisodeInv PROVE TypeOK
  OBVIOUS
<1>1. ASSUME NEW ep \in Episode, OrdinalsOK(ep) PROVE IsEpisode(ep)
  <2>1. \A s \in DOMAIN ep.runs : s \in Slices /\ ep.runs[s].answer \in Answers
    BY DEF Episode, SavedRuns
  <2> QED
    BY <1>1, <2>1 DEF Episode, OrdinalsOK, IsEpisode
<1>2. Types /\ LeaseOK
  BY DEF EpisodeInv
<1>3. IsEpisode(store)
  BY <1>1, <1>2 DEF Types
<1>4. ASSUME NEW p \in Procs, NEW w \in Workers, worker[p][w] # IdleWorker
      PROVE  IsBusy(worker[p][w])
  <2>1. worker[p][w] \in BusyWorker /\ CopyOrdinals(worker[p][w])
    BY <1>2, <1>4 DEF Types, EpisodeInv
  <2>2. worker[p][w].ep \in Episode /\ OrdinalsOK(worker[p][w].ep)
    BY <2>1 DEF BusyWorker, CopyOrdinals
  <2>3. IsEpisode(worker[p][w].ep)
    BY <1>1, <2>2
  <2> QED
    BY <2>1, <2>3 DEF BusyWorker, IsBusy
<1> QED
  BY <1>2, <1>3, <1>4 DEF Types, LeaseOK, TypeOK

\* Whatever compaction, summary, truncation and prompt cap do to an episode that
\* moves on meanwhile, the stored transcript is the newest part of what was saved.
THEOREM TranscriptTail == Spec => []TranscriptIsTail
<1>1. EpisodeInv => TranscriptIsTail
  <2> SUFFICES ASSUME EpisodeInv PROVE TranscriptIsTail
    OBVIOUS
  <2> DEFINE ms == store.messages
             N  == 2 * Len(log)
             m  == Len(ms)
             k  == N - m + 1
  <2>1. TypeOK
    BY InvTypeOK
  <2>2. /\ Transcript \in Seq(Message) /\ Len(Transcript) = N
        /\ \A i \in 1 .. N : Transcript[i] = Entry(log, i)
    BY TranscriptEntries DEF EpisodeInv, Types
  <2>3. ms \in Seq(Message) /\ m \in Nat /\ N \in Nat
    BY DEF EpisodeInv, Types, Episode
  <2>4. m <= N /\ \A i \in 1 .. m : ms[i] = Entry(log, N - m + i)
    BY DEF EpisodeInv, Fits, TailOf
  <2> HIDE DEF ms, N, m
  <2>5. k \in 1 .. N + 1 /\ N - k + 1 = m
    BY <2>3, <2>4
  <2>6. /\ Suffix(Transcript, k) \in Seq(Message) /\ Len(Suffix(Transcript, k)) = m
        /\ \A i \in 1 .. m : Suffix(Transcript, k)[i] = Transcript[k + i - 1]
    <3> HIDE DEF k
    <3> QED
      BY <2>2, <2>5, SuffixFacts
  <2>7. ASSUME NEW i \in 1 .. m PROVE ms[i] = Suffix(Transcript, k)[i]
    <3>1. k + i - 1 \in 1 .. N /\ k + i - 1 = N - m + i
      BY <2>3, <2>4
    <3> HIDE DEF k
    <3> QED
      BY <2>2, <2>4, <2>6, <3>1
  <2>8. ms = Suffix(Transcript, k)
    <3> HIDE DEF k
    <3> QED
      BY <2>3, <2>6, <2>7, SeqEqual DEF m
  <2> QED
    BY <2>1, <2>2, <2>4, <2>8 DEF TranscriptIsTail, ms, m
<1> QED
  BY <1>1, EpisodeCorrect, PTL

\* No message leaves the transcript unrecorded, whatever results of background
\* calls arrive late, as long as no slice is saved a second time.
THEOREM ContextNeverLost == Spec => []ContextKept
<1>1. EpisodeInv => ContextKept
  <2> SUFFICES ASSUME EpisodeInv, NoneRepeated
               PROVE  MessagesOf(Transcript) \subseteq
                        MessagesOf(store.messages) \cup store.content \cup store.dropped
    BY DEF ContextKept
  <2>1. /\ Transcript \in Seq(Message) /\ Len(Transcript) = 2 * Len(log)
        /\ \A i \in 1 .. 2 * Len(log) : Transcript[i] = Entry(log, i)
    BY TranscriptEntries DEF EpisodeInv, Types
  <2>2. Unrepeated(log, past)
    BY DEF NoneRepeated, Unrepeated
  <2>3. Covered(store, log)
    BY <2>2 DEF EpisodeInv, Fits
  <2>4. DOMAIN Transcript = 1 .. 2 * Len(log)
    BY <2>1, LenProperties
  <2> QED
    BY <2>1, <2>3, <2>4 DEF MessagesOf, Covered
<1> QED
  BY <1>1, EpisodeCorrect, PTL

\* A retry of any of the last RunLimit saved slices gets the saved answer.
THEOREM RetriesReplayed == Spec => []ReplayWindow
<1>1. EpisodeInv => ReplayWindow
  <2> SUFFICES ASSUME EpisodeInv, NEW i \in DOMAIN log, i > Len(log) - RunLimit
               PROVE  /\ log[i].slice \in DOMAIN store.runs
                      /\ store.runs[log[i].slice].answer = log[i].answer
    BY DEF ReplayWindow
  <2>1. i \in Window(log) /\ RunsFit(store, log)
    BY DEF Window, EpisodeInv, Fits
  <2> QED
    BY <2>1 DEF RunsFit
<1> QED
  BY <1>1, EpisodeCorrect, PTL

\* No slice is appended twice within the window, whoever extracts it.
THEOREM RunsAppendedOnce == Spec => []AppendedOnce
<1>1. EpisodeInv => AppendedOnce
  BY DEF EpisodeInv
<1> QED
  BY <1>1, EpisodeCorrect, PTL

\* The source cursor of a session is the highest sequence of its saved slices.
THEOREM CursorsNeverBehind == Spec => []CursorsCurrent
<1>1. EpisodeInv => CursorsCurrent
  <2> SUFFICES ASSUME EpisodeInv PROVE CursorsCurrent
    OBVIOUS
  <2>1. CursorsFit(store.cursors, log)
    BY DEF EpisodeInv, Fits
  <2> QED
    BY <2>1 DEF CursorsFit, CursorsCurrent
<1> QED
  BY <1>1, EpisodeCorrect, PTL

-----------------------------------------------------------------------------
(* The lifecycle coordinator *)

\* The waiters that closed the extractor know it.
ClosersKnow == \A c \in Waiters : waiter[c] \in {"closing", "closed"} => closed

\* Errors come from calls that have ended.
ErrorsEnded ==
  \A b \in Calls :
    (b \in failed \/ b \in backgroundErr \/ \E c \in Waiters : b \in reported[c])
      => call[b] = "ended"

\* What is accumulated has not been returned yet.
ErrorsApart == \A c \in Waiters : reported[c] \cap backgroundErr = {}

\* Who has not returned has returned nothing.
ReportsLast ==
  \A c \in Waiters : waiter[c] \in {"new", "asleep", "closing"} => reported[c] = {}

\* The counters are those of finite sets (beginForeground, beginBackground).
LEMMA ActiveFinite == IsFiniteSet(Active) /\ IsFiniteSet(Running)
  <1>1. Active \subseteq Extractions /\ Running \subseteq Calls
    BY DEF Active, Running
  <1> QED  BY <1>1, LifecycleAssumption, FS_Subset

\* A counter is zero exactly when nothing is running.
LEMMA CountersZero ==
  ASSUME CoordinatorTypeOK
  PROVE  /\ foreground \in Nat /\ background \in Nat
         /\ foreground = 0 <=> Active = {}
         /\ background = 0 <=> Running = {}
  <1>1. /\ Cardinality(Active) \in Nat /\ Cardinality(Running) \in Nat
        /\ Cardinality(Active) = 0 <=> Active = {}
        /\ Cardinality(Running) = 0 <=> Running = {}
    BY ActiveFinite, FS_CardinalityType, FS_EmptySet
  <1> QED  BY <1>1 DEF CoordinatorTypeOK

\* The parts of LifecycleInv, by name.
LEMMA InvParts ==
  LifecycleInv <=> /\ CoordinatorTypeOK /\ ClosersKnow /\ QuietAfterClose /\ ErrorsEnded
                   /\ ErrorsApart /\ ReportsLast /\ ErrorsReportedOnce
  BY DEF LifecycleInv, ClosersKnow, ErrorsEnded, ErrorsApart, ReportsLast

\* A fresh coordinator satisfies the invariant (newLifecycleCoordinator).
LEMMA LifecycleInit == CoordinatorInit => LifecycleInv
  <1> SUFFICES ASSUME CoordinatorInit PROVE LifecycleInv
    OBVIOUS
  <1>1. Active = {} /\ Running = {}
    BY DEF CoordinatorInit, Active, Running
  <1>2. Cardinality(Active) = 0 /\ Cardinality(Running) = 0
    BY <1>1, FS_EmptySet
  <1>3. CoordinatorTypeOK
    BY <1>2 DEF CoordinatorInit, CoordinatorTypeOK
  <1>4. /\ ClosersKnow /\ QuietAfterClose /\ ErrorsEnded
        /\ ErrorsApart /\ ReportsLast /\ ErrorsReportedOnce
    BY DEF CoordinatorInit, ClosersKnow, QuietAfterClose, ErrorsEnded, ErrorsApart,
           ReportsLast, ErrorsReportedOnce
  <1> QED  BY <1>3, <1>4, InvParts

\* What is neither begun nor ended leaves the invariant alone.
LEMMA LifecycleStutter == LifecycleInv /\ UNCHANGED coordinatorVars => LifecycleInv'
  <1> SUFFICES ASSUME LifecycleInv, UNCHANGED coordinatorVars PROVE LifecycleInv'
    OBVIOUS
  <1>1. Active' = Active /\ Running' = Running
    BY DEF coordinatorVars, Active, Running
  <1> QED  BY <1>1 DEF LifecycleInv, CoordinatorTypeOK, QuietAfterClose, ErrorsReportedOnce, coordinatorVars

\* An extraction is admitted or refused.
LEMMA BeginForegroundInv ==
  ASSUME LifecycleInv, NEW x \in Extractions, BeginForeground(x)
  PROVE  LifecycleInv'
  <1> USE InvParts DEF BeginForeground
  <1>1. Running' = Running
    BY DEF Running
  <1>2. /\ closed => Active' = Active
        /\ ~ closed => Active' = Active \cup {x} /\ x \notin Active
    BY DEF Active, CoordinatorTypeOK
  <1>3. foreground' = Cardinality(Active')
    <2>1. CASE closed
      BY <2>1, <1>2 DEF CoordinatorTypeOK
    <2>2. CASE ~ closed
      BY <2>2, <1>2, ActiveFinite, FS_AddElement DEF CoordinatorTypeOK
    <2> QED  BY <2>1, <2>2
  <1>4. CoordinatorTypeOK'
    BY <1>1, <1>3 DEF CoordinatorTypeOK, SignalLocked
  <1>5. ClosersKnow' /\ ErrorsEnded' /\ ErrorsApart' /\ ReportsLast' /\ ErrorsReportedOnce'
    BY DEF ClosersKnow, ErrorsEnded, ErrorsApart, ReportsLast, ErrorsReportedOnce
  <1>6. QuietAfterClose'
    BY <1>1, <1>2 DEF QuietAfterClose, ClosersKnow
  <1> QED  BY <1>4, <1>5, <1>6 DEF LifecycleInv, ClosersKnow, ErrorsEnded, ErrorsApart, ReportsLast

\* An extraction returns.
LEMMA FinishForegroundInv ==
  ASSUME LifecycleInv, NEW x \in Extractions, FinishForeground(x)
  PROVE  LifecycleInv'
  <1> USE InvParts DEF FinishForeground
  <1>1. Running' = Running
    BY DEF Running
  <1>2. Active' = Active \ {x} /\ x \in Active
    BY DEF Active, CoordinatorTypeOK
  <1>3. foreground' = Cardinality(Active')
    BY <1>2, ActiveFinite, FS_RemoveElement DEF CoordinatorTypeOK
  <1>4. CoordinatorTypeOK'
    BY <1>1, <1>3 DEF CoordinatorTypeOK, SignalLocked
  <1>5. ClosersKnow' /\ ErrorsEnded' /\ ErrorsApart' /\ ReportsLast' /\ ErrorsReportedOnce'
    BY DEF ClosersKnow, ErrorsEnded, ErrorsApart, ReportsLast, ErrorsReportedOnce
  <1>6. QuietAfterClose'
    BY <1>1, <1>2 DEF QuietAfterClose
  <1> QED  BY <1>4, <1>5, <1>6 DEF LifecycleInv, ClosersKnow, ErrorsEnded, ErrorsApart, ReportsLast

\* An extraction starts a background call: it is active, so no Close has
\* returned.
LEMMA BeginBackgroundInv ==
  ASSUME LifecycleInv, NEW x \in Extractions, NEW b \in Calls, BeginBackground(x, b)
  PROVE  LifecycleInv'
  <1> USE InvParts DEF BeginBackground
  <1>1. Active' = Active /\ x \in Active
    BY DEF Active
  <1>2. Running' = Running \cup {b} /\ b \notin Running
    BY DEF Running, CoordinatorTypeOK
  <1>3. background' = Cardinality(Running')
    <2>1. Cardinality(Running \cup {b}) = Cardinality(Running) + 1
      BY <1>2, ActiveFinite, FS_AddElement
    <2> QED  BY <1>2, <2>1 DEF CoordinatorTypeOK
  <1>4. CoordinatorTypeOK'
    BY <1>1, <1>3 DEF CoordinatorTypeOK, SignalLocked
  <1>5. ClosersKnow' /\ ErrorsEnded' /\ ErrorsApart' /\ ReportsLast' /\ ErrorsReportedOnce'
    BY DEF ClosersKnow, ErrorsEnded, ErrorsApart, ReportsLast, ErrorsReportedOnce, CoordinatorTypeOK
  <1>6. QuietAfterClose'
    BY <1>1 DEF QuietAfterClose
  <1> QED  BY <1>4, <1>5, <1>6 DEF LifecycleInv, ClosersKnow, ErrorsEnded, ErrorsApart, ReportsLast

\* A background call ends; an error that is not a cancellation is kept.
LEMMA FinishBackgroundInv ==
  ASSUME LifecycleInv, NEW b \in Calls, NEW err \in ErrorKinds, FinishBackground(b, err)
  PROVE  LifecycleInv'
  <1> USE InvParts DEF FinishBackground
  <1>1. Active' = Active
    BY DEF Active
  <1>2. Running' = Running \ {b} /\ b \in Running
    BY DEF Running, CoordinatorTypeOK
  <1>3. background' = Cardinality(Running')
    BY <1>2, ActiveFinite, FS_RemoveElement DEF CoordinatorTypeOK
  <1>4. CoordinatorTypeOK'
    BY <1>1, <1>3 DEF CoordinatorTypeOK, SignalLocked, ErrorKinds
  <1>5. b \notin failed /\ b \notin backgroundErr /\ \A c \in Waiters : b \notin reported[c]
    BY DEF ErrorsEnded
  <1>6. ClosersKnow' /\ ReportsLast'
    BY DEF ClosersKnow, ReportsLast
  <1>7. ErrorsApart'
    BY <1>5 DEF ErrorsApart
  <1>8. ErrorsEnded'
    BY DEF ErrorsEnded, CoordinatorTypeOK
  <1>9. ErrorsReportedOnce'
    <2>1. ASSUME NEW a \in failed' \ excused'
          PROVE  a \in backgroundErr' <=> ~ \E c \in Waiters : a \in reported'[c]
      <3>1. CASE a = b
        <4>1. err = {"failure"}
          BY <3>1, <1>5, <2>1 DEF ErrorKinds, CoordinatorTypeOK
        <4>2. b \in backgroundErr'
          BY <4>1
        <4> QED  BY <4>2, <3>1, <1>5
      <3>2. CASE a # b
        <4>1. a \in failed \ excused
          BY <3>2, <2>1
        <4>2. a \in backgroundErr' <=> a \in backgroundErr
          BY <3>2
        <4> QED  BY <4>1, <4>2 DEF ErrorsReportedOnce
      <3> QED  BY <3>1, <3>2
    <2> QED  BY <2>1 DEF ErrorsReportedOnce
  <1>10. QuietAfterClose'
    BY <1>1, <1>2 DEF QuietAfterClose
  <1> QED
    BY <1>4, <1>6, <1>7, <1>8, <1>9, <1>10
    DEF LifecycleInv, ClosersKnow, ErrorsEnded, ErrorsApart, ReportsLast

\* One turn of the wait loop, with the mutex held: it leaves only when nothing
\* is running, and takes the accumulated errors with it.
LEMMA WaitLoopInv ==
  ASSUME LifecycleInv, NEW c \in Waiters, NEW close \in BOOLEAN,
         waiter[c] \in {"new", "asleep", "closing"},
         WaitLoop(c, close),
         closed' \in BOOLEAN, closed => closed', close => closed',
         UNCHANGED <<foreground, background, extraction, failed, excused>>,
         \/ call' = call
         \/ call' = [b \in Calls |-> IF call[b] = "running" THEN "cancelled" ELSE call[b]],
         signalled' \subseteq {d \in Waiters : waiter[d] \in {"asleep", "closing"}} \ {c}
  PROVE  LifecycleInv'
  <1> USE InvParts
  <1>1. Active' = Active
    BY DEF Active
  <1>2. Running' = Running /\ call' \in [Calls -> {"new", "running", "cancelled", "ended"}]
    BY DEF Running, CoordinatorTypeOK
  <1>3. \A d \in Waiters : d # c => waiter'[d] = waiter[d] /\ reported'[d] = reported[d]
    BY DEF WaitLoop, CoordinatorTypeOK
  <1>4. CoordinatorTypeOK'
    BY <1>1, <1>2 DEF CoordinatorTypeOK, WaitLoop
  <1>5. ClosersKnow'
    BY DEF ClosersKnow, WaitLoop, CoordinatorTypeOK
  <1>6. QuietAfterClose'
    <2>1. CASE foreground > 0 \/ background > 0
      BY <2>1, <1>1, <1>2, <1>3 DEF QuietAfterClose, WaitLoop, CoordinatorTypeOK
    <2>2. CASE ~ (foreground > 0 \/ background > 0)
      <3>1. Active = {} /\ Running = {}
        BY <2>2, CountersZero
      <3> QED  BY <3>1, <1>1, <1>2 DEF QuietAfterClose
    <2> QED  BY <2>1, <2>2
  <1>7. ErrorsEnded' /\ ErrorsApart' /\ ReportsLast' /\ ErrorsReportedOnce'
    <2>1. CASE foreground > 0 \/ background > 0
      <3>1. UNCHANGED <<backgroundErr, reported>>
        BY <2>1 DEF WaitLoop
      <3>2. ErrorsEnded'
        BY <3>1 DEF ErrorsEnded
      <3>3. ErrorsApart' /\ ReportsLast' /\ ErrorsReportedOnce'
        BY <3>1, <1>3 DEF ErrorsApart, ReportsLast, ErrorsReportedOnce
      <3> QED  BY <3>2, <3>3
    <2>2. CASE ~ (foreground > 0 \/ background > 0)
      <3>1. backgroundErr' = {} /\ reported'[c] = backgroundErr /\ reported[c] = {}
        BY <2>2 DEF WaitLoop, CoordinatorTypeOK, ReportsLast
      <3>2. waiter'[c] \in {"closed", "returned"}
        BY <2>2 DEF WaitLoop, CoordinatorTypeOK
      <3>3. ErrorsEnded'
        BY <3>1, <1>3 DEF ErrorsEnded
      <3>4. ErrorsApart'
        BY <3>1 DEF ErrorsApart
      <3>5. ReportsLast'
        BY <3>2, <1>3 DEF ReportsLast
      <3>6. ErrorsReportedOnce'
        <4>1. \A b \in failed \ excused : \E d \in Waiters : b \in reported'[d]
          BY <3>1, <1>3 DEF ErrorsReportedOnce
        <4>2. \A d, e \in Waiters : d # e => reported'[d] \cap reported'[e] = {}
          BY <3>1, <1>3 DEF ErrorsReportedOnce, ErrorsApart
        <4> QED  BY <3>1, <4>1, <4>2 DEF ErrorsReportedOnce
      <3> QED  BY <3>3, <3>4, <3>5, <3>6
    <2> QED  BY <2>1, <2>2
  <1> QED
    BY <1>4, <1>5, <1>6, <1>7 DEF LifecycleInv, ClosersKnow, ErrorsEnded, ErrorsApart, ReportsLast

\* WaitForBackground and Close enter the loop.
LEMMA EnterInv ==
  ASSUME LifecycleInv, NEW c \in Waiters, WaitForBackground(c) \/ Close(c)
  PROVE  LifecycleInv'
  <1> USE InvParts
  <1>1. c \notin {d \in Waiters : waiter[d] \in {"asleep", "closing"}}
    BY DEF WaitForBackground, Close
  <1>2. CASE WaitForBackground(c)
    BY <1>2, <1>1, WaitLoopInv DEF WaitForBackground, CoordinatorTypeOK
  <1>3. CASE Close(c)
    BY <1>3, <1>1, WaitLoopInv DEF Close, SignalLocked, CoordinatorTypeOK
  <1> QED  BY <1>2, <1>3

\* A woken waiter takes another turn.
LEMMA WakeInv ==
  ASSUME LifecycleInv, NEW c \in Waiters, Wake(c)
  PROVE  LifecycleInv'
  <1> USE InvParts
  <1>1. (waiter[c] = "closing") \in BOOLEAN /\ (waiter[c] = "closing" => closed)
    BY DEF ClosersKnow
  <1> QED  BY <1>1, WaitLoopInv DEF Wake, CoordinatorTypeOK

\* A waiter whose context ends leaves everything to the others.
LEMMA GiveUpInv ==
  ASSUME LifecycleInv, NEW c \in Waiters, GiveUp(c)
  PROVE  LifecycleInv'
  <1> USE InvParts DEF GiveUp
  <1>1. Active' = Active /\ Running' = Running
    BY DEF Active, Running
  <1>2. CoordinatorTypeOK'
    BY <1>1 DEF CoordinatorTypeOK
  <1>3. ClosersKnow' /\ QuietAfterClose' /\ ReportsLast'
    BY <1>1 DEF ClosersKnow, QuietAfterClose, ReportsLast, CoordinatorTypeOK
  <1>4. ErrorsEnded' /\ ErrorsApart' /\ ErrorsReportedOnce'
    BY DEF ErrorsEnded, ErrorsApart, ErrorsReportedOnce
  <1> QED
    BY <1>2, <1>3, <1>4 DEF LifecycleInv, ClosersKnow, ErrorsEnded, ErrorsApart, ReportsLast

\* Every step of the coordinator preserves the invariant.
LEMMA LifecycleStep == LifecycleInv /\ [CoordinatorNext]_coordinatorVars => LifecycleInv'
  <1> SUFFICES ASSUME LifecycleInv, [CoordinatorNext]_coordinatorVars PROVE LifecycleInv'
    OBVIOUS
  <1>1. CASE UNCHANGED coordinatorVars
    BY <1>1, LifecycleStutter
  <1>2. CASE CoordinatorNext
    BY <1>2, BeginForegroundInv, FinishForegroundInv, BeginBackgroundInv,
       FinishBackgroundInv, EnterInv, WakeInv, GiveUpInv DEF CoordinatorNext
  <1> QED  BY <1>1, <1>2

\* The inductive invariant of the coordinator holds in every reachable state.
THEOREM LifecycleCorrect == CoordinatorSpec => []LifecycleInv
  BY LifecycleInit, LifecycleStep, PTL DEF CoordinatorSpec

\* Once a Close of the extractor has returned, no extraction and no background
\* call is running, for any number of them (lifecycleCoordinator.wait).
THEOREM CloseLeavesNothingRunning == CoordinatorSpec => []QuietAfterClose
  <1>1. LifecycleInv => QuietAfterClose
    BY DEF LifecycleInv
  <1> QED  BY <1>1, LifecycleCorrect, PTL

\* Each background error that is not a cancellation is accumulated or returned
\* by exactly one wait (finishBackground, wait).
THEOREM RealErrorsReportedOnce == CoordinatorSpec => []ErrorsReportedOnce
  <1>1. LifecycleInv => ErrorsReportedOnce
    BY DEF LifecycleInv
  <1> QED  BY <1>1, LifecycleCorrect, PTL
=============================================================================
