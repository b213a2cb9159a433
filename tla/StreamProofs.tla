---------------------------- MODULE StreamProofs ----------------------------
(***************************************************************************)
(* Proofs about the two streams that clients follow: the broker's stream   *)
(* of a job (JobStream), for every set of clients, history size and number *)
(* of events, and the stream of a PTY (PtyTail) with the retained events   *)
(* under it, for every retention and any PTYs, readers and events.         *)
(***************************************************************************)
EXTENDS JobStream, PtyTail, TLAPS, WellFoundedInduction, FiniteSetTheorems

(* JobStream *)

Numbers == 1..MaxPublished

\* The buffer holds the last MaxHistory of the events 1..p, in order.
Window(es, st, p) ==
  /\ es \in Seq(Numbers)
  /\ st \in Nat
  /\ st < CompactAt
  /\ Len(es) - st = IF p < MaxHistory THEN p ELSE MaxHistory
  /\ \A i \in (st + 1)..Len(es) : es[i] = p - Len(es) + i

\* The sizes of the buffer are positive numbers.
LEMMA CompactAtType == CompactAt \in Nat \ {0} /\ MaxHistory \in Nat \ {0} /\ MaxPublished \in Nat
BY StreamAssumption DEF CompactAt

(***************************************************************************)
(* push keeps the buffer a window, compaction included.                    *)
(***************************************************************************)
LEMMA PushWindow ==
  ASSUME NEW p \in Nat, Window(entries, start, p), p + 1 \in Numbers, Push(p + 1)
  PROVE  Window(entries', start', p + 1)
<1> DEFINE pushed == Append(entries, p + 1)
           first == IF Len(pushed) - start <= MaxHistory THEN start ELSE start + 1
<1>1. /\ pushed \in Seq(Numbers) /\ Len(pushed) = Len(entries) + 1 /\ Len(entries) \in Nat
      /\ \A i \in 1..Len(entries) : pushed[i] = entries[i]
      /\ pushed[Len(pushed)] = p + 1
  BY DEF Window, Numbers
<1>2. /\ first \in Nat /\ first <= Len(pushed)
      /\ Len(pushed) - first = IF p + 1 < MaxHistory THEN p + 1 ELSE MaxHistory
      /\ \A i \in (first + 1)..Len(pushed) : pushed[i] = p + 1 - Len(pushed) + i
  BY <1>1, CompactAtType DEF Window
<1>3. CASE first # start /\ first >= CompactAt
  <2>1. entries' = SubSeq(pushed, first + 1, Len(pushed)) /\ start' = 0
    BY <1>3 DEF Push
  <2>2. /\ Len(entries') = Len(pushed) - first
        /\ \A i \in 1..Len(entries') : entries'[i] = pushed[i + first] /\ i + first \in 1..Len(pushed)
    <3> HIDE DEF pushed, first
    <3> QED BY <1>1, <1>2, <2>1
  <2>3. entries' \in Seq(Numbers)
    <3> HIDE DEF pushed, first
    <3> QED BY <1>1, <1>2, <2>1
  <2>4. \A i \in (start' + 1)..Len(entries') : entries'[i] = (p + 1) - Len(entries') + i
    <3> HIDE DEF pushed, first
    <3>1. ASSUME NEW i \in 1..Len(entries')
          PROVE  entries'[i] = (p + 1) - Len(entries') + i
      <4>1. entries'[i] = pushed[i + first] /\ i + first \in (first + 1)..Len(pushed)
        BY <1>1, <1>2, <2>2
      <4>2. entries'[i] = p + 1 - Len(pushed) + (i + first)
        BY <1>2, <4>1
      <4> QED BY <1>1, <1>2, <2>2, <4>2
    <3>2. start' + 1 = 1
      BY <2>1
    <3> QED BY <3>1, <3>2
  <2>5. start' \in Nat /\ start' < CompactAt /\ Len(entries') - start' = IF p + 1 < MaxHistory THEN p + 1 ELSE MaxHistory
    <3> HIDE DEF pushed, first
    <3> QED BY <1>2, <2>1, <2>2, CompactAtType
  <2> QED BY <2>3, <2>4, <2>5 DEF Window
<1>4. CASE ~(first # start /\ first >= CompactAt)
  <2>1. entries' = pushed /\ start' = first
    BY <1>4 DEF Push
  <2>2. first < CompactAt
    BY <1>2, <1>4, CompactAtType DEF Window
  <2> HIDE DEF pushed, first
  <2>3. /\ entries' \in Seq(Numbers) /\ start' \in Nat /\ start' < CompactAt
        /\ Len(entries') - start' = IF p + 1 < MaxHistory THEN p + 1 ELSE MaxHistory
    BY <1>1, <1>2, <2>1, <2>2
  <2>4. \A i \in (start' + 1)..Len(entries') : entries'[i] = (p + 1) - Len(entries') + i
    <3>1. \A i \in (first + 1)..Len(pushed) : pushed[i] = (p + 1) - Len(pushed) + i
      BY <1>2
    <3> QED BY <2>1, <3>1, Zenon
  <2> QED BY <2>3, <2>4 DEF Window
<1> QED BY <1>3, <1>4

(***************************************************************************)
(* What a replay delivers.                                                 *)
(***************************************************************************)
LEMMA HistoryWindow ==
  ASSUME NEW p \in Nat, Window(entries, start, p)
  PROVE  /\ History \in Seq(Numbers)
         /\ Len(History) = IF p < MaxHistory THEN p ELSE MaxHistory
         /\ \A i \in 1..Len(History) : History[i] = p - Len(History) + i
<1>1. Len(entries) \in Nat /\ start \in Nat /\ start <= Len(entries)
  BY CompactAtType DEF Window
<1>2. /\ Len(History) = Len(entries) - start
      /\ \A i \in 1..Len(History) : History[i] = entries[i + start] /\ i + start \in (start + 1)..Len(entries)
  BY <1>1 DEF History, Window
<1>3. History \in Seq(Numbers)
  BY <1>1, <1>2 DEF History, Window
<1>4. Len(History) = IF p < MaxHistory THEN p ELSE MaxHistory
  BY <1>2 DEF Window
<1>5. ASSUME NEW i \in 1..Len(History)
      PROVE  History[i] = p - Len(History) + i
  <2>1. entries[i + start] = p - Len(entries) + (i + start)
    BY <1>2 DEF Window
  <2> QED BY <1>1, <1>2, <2>1
<1> QED BY <1>3, <1>4, <1>5

-----------------------------------------------------------------------------
\* The invariant, with the buffer described as a window.
Entry == known /\ (row = "open" \/ terminal)

\* A client that is up to date with the events 1..p.
UpToDate(s, p) ==
  /\ s # <<>> => s[Len(s)] = p
  /\ Contiguous(s)

\* By the invariant, the buffer is the window of the published events.
LEMMA IInvWindow ==
  ASSUME IInv
  PROVE  Entry \/ row = "none" => Window(entries, start, published)
<1>1. TypeOK /\ EntryConsistent /\ HistoryIsRecent
  BY DEF IInv
<1>2. CASE Entry
  BY <1>1, <1>2 DEF TypeOK, EntryConsistent, HistoryIsRecent, Window, Numbers, Entry, Recent
<1>3. CASE row = "none"
  BY <1>1, <1>3, CompactAtType DEF TypeOK, EntryConsistent, Window, Numbers
<1> QED BY <1>2, <1>3

\* A window holds the recent events in bounded memory.
LEMMA WindowRecent ==
  ASSUME published' \in Nat, Window(entries', start', published')
  PROVE  HistoryIsRecent' /\ BufferBounded'
<1>1. HistoryIsRecent'
  BY DEF Window, HistoryIsRecent, Recent
<1>2. BufferBounded'
  BY CompactAtType DEF Window, BufferBounded, Numbers, CompactAt
<1> QED BY <1>1, <1>2

(***************************************************************************)
(* Delivering the next event keeps a subscriber up to date.                *)
(***************************************************************************)
LEMMA DeliverUpToDate ==
  ASSUME NEW s \in Seq(Numbers), NEW p \in Nat, p + 1 \in Numbers, UpToDate(s, p)
  PROVE  /\ Append(s, p + 1) \in Seq(Numbers)
         /\ UpToDate(Append(s, p + 1), p + 1)
         /\ Append(s, p + 1) # <<>>
         /\ Len(Append(s, p + 1)) = Len(s) + 1
<1>1. /\ Append(s, p + 1) \in Seq(Numbers)
      /\ Len(Append(s, p + 1)) = Len(s) + 1 /\ Len(s) \in Nat
      /\ \A i \in 1..Len(s) : Append(s, p + 1)[i] = s[i] /\ s[i] \in Numbers
      /\ Append(s, p + 1)[Len(s) + 1] = p + 1
  OBVIOUS
<1>2. CASE s = <<>>
  BY <1>1, <1>2 DEF UpToDate, Contiguous
<1>3. CASE s # <<>>
  <2>1. Len(s) >= 1 /\ s[Len(s)] = p /\ s[1] \in Int
    BY <1>1, <1>3 DEF UpToDate, Numbers
  <2>2. p = s[1] + Len(s) - 1
    BY <1>1, <2>1 DEF UpToDate, Contiguous
  <2>3. Contiguous(Append(s, p + 1))
    <3>1. ASSUME NEW i \in 1..(Len(s) + 1)
          PROVE  Append(s, p + 1)[i] = s[1] + i - 1
      <4>1. CASE i = Len(s) + 1
        BY <1>1, <2>1, <2>2, <4>1
      <4>2. CASE i \in 1..Len(s)
        BY <1>1, <2>1, <4>2 DEF UpToDate, Contiguous
      <4> QED BY <1>1, <3>1, <4>1, <4>2
    <3>2. Append(s, p + 1)[1] = s[1]
      BY <1>1, <2>1
    <3> QED BY <1>1, <3>1, <3>2 DEF Contiguous
  <2> QED BY <1>1, <2>3 DEF UpToDate
<1> QED BY <1>2, <1>3

\* A replay brings a client up to date.
LEMMA HistoryUpToDate ==
  ASSUME NEW p \in Nat, Window(entries, start, p)
  PROVE  UpToDate(History, p) /\ (p > 0 => History # <<>>)
BY HistoryWindow, CompactAtType DEF UpToDate, Contiguous

-----------------------------------------------------------------------------
\* A forgotten entry.
LEMMA ForgetEffect ==
  ASSUME Forget
  PROVE  /\ known' \in BOOLEAN /\ terminal' \in BOOLEAN /\ timer' \in BOOLEAN
         /\ entries' \in Seq(1..MaxPublished) /\ start' \in Nat /\ subscribers' \in SUBSET Clients
         /\ ~known' /\ ~terminal' /\ ~timer' /\ subscribers' = {} /\ entries' = <<>> /\ start' = 0
         /\ Len(entries') = 0
<1>1. known' \in BOOLEAN /\ terminal' \in BOOLEAN /\ timer' \in BOOLEAN
  BY DEF Forget
<1>2. entries' \in Seq(1..MaxPublished) /\ start' \in Nat /\ subscribers' \in SUBSET Clients
  BY DEF Forget
<1>3. ~known' /\ ~terminal' /\ ~timer' /\ subscribers' = {} /\ entries' = <<>> /\ start' = 0
  BY DEF Forget
<1> QED BY <1>1, <1>2, <1>3

\* Publishing an event keeps the invariant.
LEMMA PublishInv ==
  ASSUME IInv, Publish
  PROVE  IInv'
<1> USE DEF streams, broker
<1>1. TypeOK /\ EntryConsistent /\ OpenStreamIsCurrent /\ ClosedStreamTellsOutcome
  BY DEF IInv
<1>2. published \in Nat /\ published + 1 \in Numbers /\ published' = published + 1 /\ row' = "open" /\ known'
  BY <1>1, CompactAtType DEF TypeOK, Publish, Numbers
<1>3. Window(entries', start', published')
  <2>1. Entry \/ row = "none"
    BY <1>1 DEF TypeOK, EntryConsistent, Publish, Entry
  <2>2. Window(entries, start, published) /\ Push(published + 1)
    BY <2>1, IInvWindow DEF Publish
  <2> QED BY <1>2, <2>2, PushWindow
<1>4. /\ \A c \in subscribers : c \in Clients /\ conn[c] = "open" /\ row = "open"
      /\ \A c \in Clients : conn[c] = "open" => c \in subscribers
      /\ \A c \in Clients : conn[c] # "closed"
  <2>1. row = "none" \/ row = "open"
    BY <1>1 DEF TypeOK, Publish
  <2>2. \A c \in Clients : conn[c] # "closed"
    BY <1>1, <2>1 DEF ClosedStreamTellsOutcome
  <2>3. subscribers = {c \in Clients : conn[c] = "open"} /\ (row = "none" => subscribers = {})
    BY <1>1 DEF EntryConsistent
  <2> QED BY <2>1, <2>2, <2>3
<1>5. \A c \in subscribers :
        /\ received'[c] \in Seq(Numbers)
        /\ UpToDate(received'[c], published')
        /\ Len(received'[c]) >= Recent'
  <2> SUFFICES ASSUME NEW c \in subscribers
               PROVE  /\ received'[c] \in Seq(Numbers)
                      /\ UpToDate(received'[c], published')
                      /\ Len(received'[c]) >= Recent'
    OBVIOUS
  <2>1. received'[c] = Append(received[c], published + 1) /\ received[c] \in Seq(Numbers)
    BY <1>1, <1>4 DEF Publish, Deliver, TypeOK, Numbers
  <2>2. UpToDate(received[c], published) /\ Len(received[c]) >= Recent
    BY <1>1, <1>4 DEF OpenStreamIsCurrent, UpToDate
  <2>3. Recent' <= Recent + 1 /\ Recent \in Nat /\ Recent' \in Nat
    BY <1>2, CompactAtType DEF Recent
  <2> QED BY <1>2, <2>1, <2>2, <2>3, DeliverUpToDate
<1>6. TypeOK'
  <2>1. received' \in [Clients -> Seq(Numbers)]
    BY <1>1, <1>5 DEF Publish, Deliver, TypeOK, Numbers
  <2> QED BY <1>1, <1>2, <1>3, <2>1 DEF Publish, TypeOK, Window, Numbers
<1>7. EntryConsistent'
  <2>1. ~terminal /\ ~timer /\ terminal' = terminal /\ timer' = timer
    BY <1>1 DEF TypeOK, EntryConsistent, FinishedJobIsForgotten, Publish
  <2>2. subscribers' = {c \in Clients : conn'[c] = "open"}
    BY <1>1 DEF EntryConsistent, Publish
  <2>3. start' < CompactAt /\ published' > 0
    BY <1>2, <1>3 DEF Window
  <2> QED BY <1>2, <2>1, <2>2, <2>3 DEF EntryConsistent
<1>8. HistoryIsRecent' /\ BufferBounded'
  BY <1>2, <1>3, WindowRecent
<1>9. OpenStreamIsCurrent'
  BY <1>4, <1>5 DEF OpenStreamIsCurrent, UpToDate, Publish
<1>10. ClosedStreamTellsOutcome'
  BY <1>4 DEF ClosedStreamTellsOutcome, Publish
<1>11. FinishedJobIsForgotten'
  BY <1>7 DEF FinishedJobIsForgotten, EntryConsistent, Publish
<1> QED BY <1>6, <1>7, <1>8, <1>9, <1>10, <1>11 DEF IInv

\* Publishing the terminal event keeps the invariant.
LEMMA PublishTerminalInv ==
  ASSUME IInv, PublishTerminal
  PROVE  IInv'
<1>1. TypeOK /\ EntryConsistent /\ OpenStreamIsCurrent /\ ClosedStreamTellsOutcome
  BY DEF IInv
<1>2. published \in Nat /\ published + 1 \in Numbers /\ published' = published + 1 /\ row' = "terminal" /\ known' /\ known
  BY <1>1, CompactAtType DEF TypeOK, PublishTerminal, Numbers, EntryConsistent
<1>3. Window(entries', start', published')
  BY <1>1, <1>2, IInvWindow, PushWindow DEF PublishTerminal, Entry
<1>4. /\ \A c \in subscribers : c \in Clients /\ conn[c] = "open"
      /\ \A c \in Clients : conn[c] = "open" => c \in subscribers
      /\ \A c \in Clients : conn[c] # "closed"
  BY <1>1 DEF EntryConsistent, PublishTerminal, ClosedStreamTellsOutcome
<1>5. \A c \in subscribers :
        /\ received'[c] \in Seq(Numbers)
        /\ UpToDate(received'[c], published')
        /\ received'[c] # <<>>
  <2> SUFFICES ASSUME NEW c \in subscribers
               PROVE  /\ received'[c] \in Seq(Numbers)
                      /\ UpToDate(received'[c], published')
                      /\ received'[c] # <<>>
    OBVIOUS
  <2>1. received'[c] = Append(received[c], published + 1) /\ received[c] \in Seq(Numbers)
    BY <1>1, <1>4 DEF PublishTerminal, Deliver, TypeOK, Numbers
  <2>2. UpToDate(received[c], published)
    BY <1>1, <1>4 DEF OpenStreamIsCurrent, UpToDate, PublishTerminal
  <2> QED BY <1>2, <2>1, <2>2, DeliverUpToDate
<1>6. TypeOK'
  <2>1. received' \in [Clients -> Seq(Numbers)]
    BY <1>1, <1>5 DEF PublishTerminal, Deliver, TypeOK, Numbers
  <2> QED BY <1>1, <1>2, <1>3, <2>1 DEF PublishTerminal, TypeOK, Window, Numbers
<1>7. EntryConsistent'
  BY <1>1, <1>2, <1>3, <1>4 DEF EntryConsistent, PublishTerminal, Window, TypeOK
<1>8. HistoryIsRecent' /\ BufferBounded'
  BY <1>2, <1>3, WindowRecent
<1>9. OpenStreamIsCurrent'
  BY <1>2 DEF OpenStreamIsCurrent
<1>10. ClosedStreamTellsOutcome'
  BY <1>1, <1>2, <1>4, <1>5 DEF ClosedStreamTellsOutcome, UpToDate, PublishTerminal, TypeOK
<1>11. FinishedJobIsForgotten'
  BY <1>2 DEF FinishedJobIsForgotten, PublishTerminal
<1> QED BY <1>6, <1>7, <1>8, <1>9, <1>10, <1>11 DEF IInv

\* Opening a stream keeps the invariant.
LEMMA StreamInv ==
  ASSUME IInv, NEW c \in Clients, Stream(c)
  PROVE  IInv'
<1>1. TypeOK /\ EntryConsistent /\ HistoryIsRecent /\ BufferBounded /\ OpenStreamIsCurrent /\ ClosedStreamTellsOutcome
      /\ FinishedJobIsForgotten
  BY DEF IInv
<1>2. /\ published \in Nat /\ UNCHANGED <<row, published, entries, start, terminal>> /\ known'
      /\ received' = [received EXCEPT ![c] = History]
  BY <1>1 DEF TypeOK, Stream
<1>3. History \in Seq(Numbers)
  <2>1. CASE Entry
    BY <1>2, <2>1, IInvWindow, HistoryWindow
  <2>2. CASE ~Entry
    <3>1. entries = <<>> /\ start = 0
      BY <1>1, <2>2 DEF EntryConsistent, Entry, Stream, TypeOK
    <3> QED BY <3>1 DEF History
  <2> QED BY <2>1, <2>2
<1>4. Entry => /\ UpToDate(History, published) /\ History # <<>>
               /\ Len(History) = Recent
  BY <1>1, <1>2, IInvWindow, HistoryUpToDate, HistoryWindow DEF EntryConsistent, Entry, Recent
<1>5. TypeOK'
  BY <1>1, <1>2, <1>3 DEF TypeOK, Stream, Numbers
<1>6. EntryConsistent'
  BY <1>1, <1>2 DEF EntryConsistent, Stream, TypeOK
<1>7. HistoryIsRecent' /\ BufferBounded'
  BY <1>1, <1>2 DEF HistoryIsRecent, BufferBounded, Recent, EntryConsistent
<1>8. OpenStreamIsCurrent'
  <2>1. row = "open" => Entry
    BY <1>1 DEF EntryConsistent, Entry
  <2>2. ASSUME NEW d \in Clients, row' = "open", conn'[d] = "open"
        PROVE  Len(received'[d]) >= Recent' /\ UpToDate(received'[d], published')
    <3>1. CASE d = c
      BY <1>1, <1>2, <1>4, <2>1, <2>2, <3>1, CompactAtType DEF TypeOK, Recent
    <3>2. CASE d # c
      BY <1>1, <1>2, <2>2, <3>2 DEF OpenStreamIsCurrent, Stream, TypeOK, Recent, UpToDate
    <3> QED BY <3>1, <3>2
  <2> QED BY <2>2 DEF OpenStreamIsCurrent, UpToDate
<1>9. ClosedStreamTellsOutcome'
  <2>1. terminal => Entry /\ row = "terminal"
    BY <1>1 DEF EntryConsistent, Entry, FinishedJobIsForgotten, TypeOK, Stream
  <2>2. ASSUME NEW d \in Clients, conn'[d] = "closed"
        PROVE  row' = "terminal" /\ received'[d] # <<>> /\ UpToDate(received'[d], published')
    <3>1. CASE d = c
      BY <1>1, <1>2, <1>4, <2>1, <2>2, <3>1 DEF TypeOK, Stream
    <3>2. CASE d # c
      BY <1>1, <1>2, <2>2, <3>2 DEF ClosedStreamTellsOutcome, Stream, TypeOK, UpToDate
    <3> QED BY <3>1, <3>2
  <2> QED BY <2>2 DEF ClosedStreamTellsOutcome, UpToDate
<1>10. FinishedJobIsForgotten'
  BY <1>1, <1>2 DEF FinishedJobIsForgotten, Stream
<1> QED BY <1>5, <1>6, <1>7, <1>8, <1>9, <1>10 DEF IInv

\* A client that goes away keeps the invariant.
LEMMA CancelInv ==
  ASSUME IInv, NEW c \in Clients, Cancel(c)
  PROVE  IInv'
<1> USE DEF IInv, Cancel
<1>1. TypeOK'
  BY DEF TypeOK
<1>2. EntryConsistent' /\ FinishedJobIsForgotten'
  BY DEF TypeOK, EntryConsistent, FinishedJobIsForgotten
<1>3. HistoryIsRecent' /\ BufferBounded'
  BY DEF HistoryIsRecent, BufferBounded, Recent
<1>4. OpenStreamIsCurrent' /\ ClosedStreamTellsOutcome'
  BY DEF TypeOK, OpenStreamIsCurrent, ClosedStreamTellsOutcome, Recent
<1> QED BY <1>1, <1>2, <1>3, <1>4

\* The cleanup timer keeps the invariant.
LEMMA CleanupInv ==
  ASSUME IInv, CleanupFires
  PROVE  IInv'
<1>1. TypeOK /\ EntryConsistent /\ ClosedStreamTellsOutcome
  BY DEF IInv
<1>2. terminal /\ subscribers = {} /\ row = "terminal" /\ \A c \in Clients : conn[c] # "open"
  BY DEF IInv, TypeOK, EntryConsistent, FinishedJobIsForgotten, CleanupFires
<1>3. Forget /\ UNCHANGED <<row, published, conn, received>>
  BY <1>2 DEF CleanupFires, streams
<1>4. TypeOK'
  BY <1>1, <1>3, ForgetEffect DEF TypeOK
<1>5. EntryConsistent' /\ FinishedJobIsForgotten'
  <2>1. subscribers' = {c \in Clients : conn'[c] = "open"}
    BY <1>2, <1>3, ForgetEffect
  <2> QED BY <1>2, <1>3, <2>1, ForgetEffect, CompactAtType DEF EntryConsistent, FinishedJobIsForgotten
<1>6. HistoryIsRecent' /\ BufferBounded'
  BY <1>3, ForgetEffect, CompactAtType DEF HistoryIsRecent, BufferBounded
<1>7. OpenStreamIsCurrent' /\ ClosedStreamTellsOutcome'
  BY <1>1, <1>2, <1>3 DEF OpenStreamIsCurrent, ClosedStreamTellsOutcome
<1> QED BY <1>4, <1>5, <1>6, <1>7 DEF IInv

\* A restart keeps the invariant.
LEMMA RestartInv ==
  ASSUME IInv, Restart
  PROVE  IInv'
<1>1. Forget /\ row' \in {"none", "terminal"} /\ published' = 0
  BY DEF Restart
<1>2. \A c \in Clients : conn'[c] = "none"
  BY DEF Restart
<1>3. TypeOK'
  <2>1. conn' \in [Clients -> {"none", "open", "closed", "cancelled"}] /\ received' \in [Clients -> Seq(1..MaxPublished)]
    BY DEF Restart
  <2> QED BY <1>1, <2>1, ForgetEffect, CompactAtType DEF TypeOK
<1>4. EntryConsistent' /\ FinishedJobIsForgotten'
  <2>1. subscribers' = {c \in Clients : conn'[c] = "open"}
    BY <1>1, <1>2, ForgetEffect
  <2> QED BY <1>1, <1>2, <2>1, ForgetEffect, CompactAtType DEF EntryConsistent, FinishedJobIsForgotten
<1>5. HistoryIsRecent' /\ BufferBounded'
  BY <1>1, ForgetEffect, CompactAtType DEF HistoryIsRecent, BufferBounded
<1>6. OpenStreamIsCurrent' /\ ClosedStreamTellsOutcome'
  BY <1>1, <1>2 DEF OpenStreamIsCurrent, ClosedStreamTellsOutcome
<1> QED BY <1>3, <1>4, <1>5, <1>6 DEF IInv

\* Stuttering keeps the invariant.
LEMMA StutterInv ==
  ASSUME IInv, UNCHANGED vars
  PROVE  IInv'
BY DEF IInv, vars, broker, streams, TypeOK, EntryConsistent, FinishedJobIsForgotten, HistoryIsRecent, BufferBounded, Recent,
       OpenStreamIsCurrent, ClosedStreamTellsOutcome

\* The initial states satisfy the invariant.
LEMMA InitInv ==
  ASSUME Init
  PROVE  IInv
<1>1. TypeOK
  <2>1. row \in {"none", "open", "terminal"} /\ published \in 0..MaxPublished
    BY StreamAssumption DEF Init
  <2>2. known \in BOOLEAN /\ terminal \in BOOLEAN /\ timer \in BOOLEAN
    BY DEF Init
  <2>3. entries \in Seq(1..MaxPublished) /\ start \in Nat /\ subscribers \in SUBSET Clients
    BY DEF Init
  <2>4. conn \in [Clients -> {"none", "open", "closed", "cancelled"}] /\ received \in [Clients -> Seq(1..MaxPublished)]
    BY DEF Init
  <2> QED BY <2>1, <2>2, <2>3, <2>4 DEF TypeOK
<1>2. EntryConsistent
  BY CompactAtType DEF Init, EntryConsistent
<1>3. HistoryIsRecent /\ BufferBounded
  BY CompactAtType DEF Init, HistoryIsRecent, BufferBounded
<1>4. OpenStreamIsCurrent /\ ClosedStreamTellsOutcome /\ FinishedJobIsForgotten
  BY DEF Init, OpenStreamIsCurrent, ClosedStreamTellsOutcome, FinishedJobIsForgotten
<1> QED BY <1>1, <1>2, <1>3, <1>4 DEF IInv

(***************************************************************************)
(* In every reachable state the inductive invariant holds.                 *)
(***************************************************************************)
THEOREM Invariance == Spec => []IInv
<1>1. ASSUME IInv, [Next]_vars
      PROVE  IInv'
  BY <1>1, PublishInv, PublishTerminalInv, StreamInv, CancelInv, CleanupInv, RestartInv, StutterInv DEF Next
<1> QED BY <1>1, InitInv, PTL DEF Spec

(***************************************************************************)
(* Type correctness of the broker and of its clients' streams.             *)
(***************************************************************************)
THEOREM TypeCorrectness == Spec => []TypeOK
<1>1. IInv => TypeOK
  BY DEF IInv
<1> QED BY <1>1, Invariance, PTL

(***************************************************************************)
(* The history holds the most recent events, in an array that stays within *)
(* its bound, for every history size and compaction threshold              *)
(* (JobHistoryBuffer).                                                     *)
(***************************************************************************)
THEOREM WindowTheorem == Spec => []HistoryIsWindow
<1>1. IInv => HistoryIsWindow
  BY DEF IInv, HistoryIsWindow
<1> QED BY <1>1, Invariance, PTL

(***************************************************************************)
(* Open streams are up to date and without gaps, and a stream that the     *)
(* broker closed has told its client the outcome (stream, publish,         *)
(* closeSubscribers).                                                      *)
(***************************************************************************)
THEOREM DeliveryTheorem == Spec => []ClientsAreServed
<1>1. IInv => ClientsAreServed
  BY DEF IInv, ClientsAreServed
<1> QED BY <1>1, Invariance, PTL

(***************************************************************************)
(* A finished job that the broker still holds will be cleaned up.          *)
(***************************************************************************)
THEOREM CleanupTheorem == Spec => []FinishedJobIsForgotten
<1>1. IInv => FinishedJobIsForgotten
  BY DEF IInv
<1> QED BY <1>1, Invariance, PTL

-----------------------------------------------------------------------------
(* PtyTail *)

(***************************************************************************)
(* The smallest and the largest number of a set.                           *)
(***************************************************************************)
LEMMA SmallestIs ==
  ASSUME NEW S \in SUBSET Nat, S # {}
  PROVE  Smallest(S) \in S /\ \A t \in S : Smallest(S) <= t
<1> DEFINE R == OpToRel(<, Nat)
<1>1. PICK x \in S : \A y \in S : ~ (<<y, x>> \in R)
  <2>1. IsWellFoundedOn(R, Nat)
    BY NatLessThanWellFounded
  <2> HIDE DEF R
  <2> QED BY <2>1, WFMin
<1>2. ASSUME NEW y \in S
      PROVE  x <= y
  <2>1. x \in Nat /\ y \in Nat
    OBVIOUS
  <2>2. <<y, x>> \in R <=> y < x
    BY <2>1, Zenon DEF OpToRel
  <2> HIDE DEF R
  <2>3. <<y, x>> \notin R
    BY <1>1
  <2> QED BY <2>1, <2>2, <2>3
<1> QED BY <1>1, <1>2 DEF Smallest

LEMMA LargestIs ==
  ASSUME NEW n \in Nat, NEW S \in SUBSET (0..n), S # {}
  PROVE  Largest(S) \in S /\ \A t \in S : t <= Largest(S)
<1> DEFINE C == {n - s : s \in S}
<1>1. C \in SUBSET Nat /\ C # {}
  <2>1. \A s \in S : n - s \in Nat
    OBVIOUS
  <2> QED BY <2>1
<1>2. Smallest(C) \in C /\ \A t \in C : Smallest(C) <= t
  <2> HIDE DEF C
  <2> QED BY <1>1, SmallestIs
<1>3. PICK x \in S : Smallest(C) = n - x
  BY <1>2
<1>4. ASSUME NEW t \in S
      PROVE  t <= x
  <2>1. n - x <= n - t
    BY <1>2, <1>3
  <2> QED BY <2>1
<1> QED BY <1>4 DEF Largest

-----------------------------------------------------------------------------
(* The table. *)

(***************************************************************************)
(* The number after which an event is numbered is the number of appended   *)
(* events.                                                                 *)
(***************************************************************************)
LEMMA LatestIsLength ==
  ASSUME HoldsLatest, ever \in Seq(Event)
  PROVE  LatestSequence = Len(ever)
<1>1. Len(ever) \in Nat
  OBVIOUS
<1>2. CASE Len(ever) = 0
  BY <1>1, <1>2 DEF HoldsLatest, LatestSequence
<1>3. CASE Len(ever) # 0
  <2>1. Len(ever) \in DOMAIN rows /\ \A t \in DOMAIN rows : t \in Nat /\ t <= Len(ever)
    BY <1>1, <1>3, RetentionAssumption DEF HoldsLatest
  <2> QED BY <1>1, <2>1 DEF LatestSequence
<1> QED BY <1>2, <1>3

(***************************************************************************)
(* An append keeps the table the window of the latest events.              *)
(***************************************************************************)
LEMMA AppendHolds ==
  ASSUME HoldsLatest, ever \in Seq(Event), NEW e \in Event, AppendEvent(e)
  PROVE  /\ HoldsLatest'
         /\ ever' \in Seq(Event)
         /\ Len(ever') = Len(ever) + 1
         /\ \A s \in 1..Len(ever) : ever'[s] = ever[s]
         /\ ever'[Len(ever) + 1] = e
<1> DEFINE n == Len(ever)
           next == LatestSequence + 1
           kept == (DOMAIN rows \cup {next}) \ Trimmed(next)
<1>1. n \in Nat /\ next = n + 1
  BY LatestIsLength
<1>2. /\ ever' \in Seq(Event) /\ Len(ever') = n + 1
      /\ \A s \in 1..n : ever'[s] = ever[s]
      /\ ever'[n + 1] = e
  BY DEF AppendEvent
<1>3. kept = {s \in 1..(n + 1) : s > (n + 1) - Retention}
  BY <1>1, RetentionAssumption DEF HoldsLatest, Trimmed
<1>4. rows' = [s \in kept |-> IF s = n + 1 THEN e ELSE rows[s]]
  BY <1>1 DEF AppendEvent
<1>5. DOMAIN rows' = {s \in 1..Len(ever') : s > Len(ever') - Retention}
  <2>1. DOMAIN rows' = kept
    BY <1>4
  <2>2. Len(ever') = n + 1
    BY <1>2
  <2> HIDE DEF kept, n
  <2>3. DOMAIN rows' = {s \in 1..(n + 1) : s > (n + 1) - Retention}
    BY <1>3, <2>1, Zenon
  <2> QED BY <2>2, <2>3, Zenon
<1>6. ASSUME NEW s \in kept
      PROVE  rows'[s] = ever'[s]
  <2>1. CASE s = n + 1
    BY <1>2, <1>4, <2>1
  <2>2. CASE s # n + 1
    <3>1. s \in DOMAIN rows /\ s \in 1..n
      BY <1>1, <1>3, <2>2, RetentionAssumption DEF HoldsLatest
    <3> QED BY <1>2, <1>4, <2>2, <3>1 DEF HoldsLatest
  <2> QED BY <2>1, <2>2
<1> HIDE DEF n, kept, next
<1>7. HoldsLatest'
  BY <1>4, <1>5, <1>6 DEF HoldsLatest
<1> QED BY <1>2, <1>7 DEF n

-----------------------------------------------------------------------------
(* Appends do not disturb the readers. *)

(***************************************************************************)
(* An append leaves everything already recorded as it was.                 *)
(***************************************************************************)
LEMMA RecordStep ==
  ASSUME TailInv, NEW kind \in Kinds, NEW p \in Ptys, Record(kind, p)
  PROVE  /\ HoldsLatest'
         /\ ever' \in Seq(Event) /\ rows' \in [DOMAIN rows' -> Event]
         /\ Len(ever') = Len(ever) + 1
         /\ \A s \in 1..Len(ever) : ever'[s] = ever[s]
         /\ ever'[Len(ever) + 1] = [kind |-> kind, pty |-> p, at |-> clock]
         /\ UNCHANGED <<readerVars, clock, crashes>>
<1> DEFINE e == [kind |-> kind, pty |-> p, at |-> clock]
<1>1. e \in Event
  BY TailAssumption DEF TailInv, TailTypeOK
<1>2. AppendEvent(e) /\ UNCHANGED <<readerVars, clock, crashes>>
  BY DEF Record
<1>3. HoldsLatest /\ ever \in Seq(Event)
  BY DEF TailInv, TailTypeOK
<1> HIDE DEF e
<1>4. /\ HoldsLatest'
      /\ ever' \in Seq(Event)
      /\ Len(ever') = Len(ever) + 1
      /\ \A s \in 1..Len(ever) : ever'[s] = ever[s]
      /\ ever'[Len(ever) + 1] = e
  BY <1>1, <1>2, <1>3, AppendHolds
<1>5. rows' \in [DOMAIN rows' -> Event]
  <2>1. rows' = [s \in DOMAIN rows' |-> rows'[s]]
    BY <1>2 DEF AppendEvent
  <2>2. \A s \in DOMAIN rows' : rows'[s] \in Event
    BY <1>4 DEF HoldsLatest
  <2> QED BY <2>1, <2>2
<1> QED BY <1>2, <1>4, <1>5 DEF e

(***************************************************************************)
(* What a reader has read stays what it was when events are appended.      *)
(***************************************************************************)
LEMMA RecordReaders ==
  ASSUME TailInv, NEW kind \in Kinds, NEW p \in Ptys, Record(kind, p), NEW r \in Readers
  PROVE  ReaderConsistent(r)'
<1>1. /\ Len(ever') = Len(ever) + 1
      /\ \A s \in 1..Len(ever) : ever'[s] = ever[s]
      /\ UNCHANGED readerVars
  BY RecordStep
<1>2. ReaderConsistent(r) /\ Len(ever) \in Nat
  BY DEF TailInv, TailTypeOK
<1>3. Received(r)' = Received(r) /\ Delivered(r)' = Delivered(r)
  BY <1>1 DEF readerVars, Received, Delivered
<1>4. 1..Len(ever) \subseteq 1..Len(ever')
  BY <1>1, <1>2
<1>5. cursor[r] <= Len(ever')
  BY <1>1, <1>2 DEF ReaderConsistent, TailInv, TailTypeOK
<1> QED BY <1>1, <1>2, <1>3, <1>4, <1>5 DEF ReaderConsistent, readerVars

(***************************************************************************)
(* An exit stays the last thing streamed of its PTY, provided that only    *)
(* live mirrors stream, and that a mirror is over after the exit.          *)
(***************************************************************************)
LEMMA RecordExits ==
  ASSUME TailInv, NEW kind \in Kinds, NEW p \in Ptys, Record(kind, p),
         kind # "other" => mirror[p] = "live",
         kind = "exit" => mirror'[p] = "over",
         \A q \in Ptys : mirror[q] = "over" => mirror'[q] = "over"
  PROVE  ExitIsLast'
<1> DEFINE n == Len(ever)
<1>1. /\ Len(ever') = n + 1 /\ n \in Nat
      /\ \A s \in 1..n : ever'[s] = ever[s] /\ ever[s].pty \in Ptys
      /\ ever'[n + 1] = [kind |-> kind, pty |-> p, at |-> clock]
  <2>1. ever \in Seq(Event) /\ \A s \in 1..n : ever[s] \in Event
    BY DEF TailInv, TailTypeOK
  <2>2. \A s \in 1..n : ever[s].pty \in Ptys
    BY <2>1, TailAssumption
  <2> QED BY <2>1, <2>2, RecordStep
<1>2. ExitIsLast
  BY DEF TailInv
<1> HIDE DEF n
<1>3. ASSUME NEW s \in 1..(n + 1), ever'[s].kind = "exit"
      PROVE  /\ mirror'[ever'[s].pty] = "over"
             /\ \A t \in 1..(n + 1) : s < t /\ ever'[t].pty = ever'[s].pty => ever'[t].kind = "other"
  <2>1. CASE s = n + 1
    BY <1>1, <1>3, <2>1
  <2>2. CASE s \in 1..n
    <3>1. ever[s].kind = "exit" /\ mirror[ever[s].pty] = "over" /\ ever'[s] = ever[s]
      BY <1>1, <1>2, <1>3, <2>2 DEF ExitIsLast, n
    <3>2. ASSUME NEW t \in 1..(n + 1), s < t, ever'[t].pty = ever'[s].pty
          PROVE  ever'[t].kind = "other"
      <4>1. CASE t \in 1..n
        BY <1>1, <1>2, <2>2, <3>1, <3>2, <4>1 DEF ExitIsLast, n
      <4>2. CASE t = n + 1
        BY <1>1, <3>1, <3>2, <4>2
      <4> QED BY <1>1, <4>1, <4>2
    <3> QED BY <1>1, <2>2, <3>1, <3>2
  <2> QED BY <1>1, <2>1, <2>2
<1> QED BY <1>1, <1>3 DEF ExitIsLast

-----------------------------------------------------------------------------
(* A step of a reader. *)

(***************************************************************************)
(* A scan takes rows of the reader's PTY beyond its cursor.                *)
(***************************************************************************)
LEMMA TakenAre ==
  ASSUME TailInv, NEW r \in Readers, NEW s \in Taken(reads[r], cursor[r])
  PROVE  /\ s \in DOMAIN rows /\ s \in 1..Len(ever) /\ s > cursor[r]
         /\ rows[s] = ever[s] /\ ever[s].pty = reads[r] /\ ever[s].kind # "other"
<1>1. s \in DOMAIN rows /\ s > cursor[r] /\ rows[s].pty = reads[r] /\ rows[s].kind # "other"
  BY DEF Taken, Fresh, Page
<1> QED BY <1>1 DEF TailInv, HoldsLatest

(***************************************************************************)
(* A reader that yields the first of events which come after what it has   *)
(* delivered keeps its deliveries in order, and the others for later.      *)
(***************************************************************************)
LEMMA YieldStep ==
  ASSUME TailInv, NEW r \in Readers, NEW events \in SUBSET Nat, events # {}, Yield(r, events),
         \A s \in Delivered(r), t \in events : s < t
  PROVE  /\ got' \in [Readers -> Seq(Nat)] /\ pending' \in [Readers -> SUBSET Nat]
         /\ \A q \in Readers \ {r} : got'[q] = got[q] /\ pending'[q] = pending[q]
         /\ Received(r)' = Delivered(r) \cup events
         /\ \A i, j \in 1..Len(got'[r]) : i < j => got'[r][i] < got'[r][j]
         /\ \A s \in Delivered(r)', t \in pending'[r] : s < t
<1> DEFINE m == Smallest(events)
           g == got[r]
<1>1. m \in events /\ m \in Nat /\ \A t \in events : m <= t
  BY SmallestIs
<1>2. g \in Seq(Nat) /\ got \in [Readers -> Seq(Nat)] /\ pending \in [Readers -> SUBSET Nat]
  BY DEF TailInv, TailTypeOK
<1>3. got' = [got EXCEPT ![r] = Append(g, m)] /\ pending' = [pending EXCEPT ![r] = events \ {m}]
  BY DEF Yield
<1>4. /\ Append(g, m) \in Seq(Nat) /\ Len(Append(g, m)) = Len(g) + 1 /\ Len(g) \in Nat
      /\ \A i \in 1..Len(g) : Append(g, m)[i] = g[i]
      /\ Append(g, m)[Len(g) + 1] = m
  BY <1>1, <1>2
<1>5. got'[r] = Append(g, m) /\ pending'[r] = events \ {m}
  BY <1>2, <1>3
<1>6. \A i \in 1..Len(g) : g[i] \in Delivered(r)
  BY DEF Delivered
<1> HIDE DEF m
<1>7. Delivered(r)' = Delivered(r) \cup {m}
  <2>1. ASSUME NEW i \in 1..(Len(g) + 1)
        PROVE  Append(g, m)[i] \in Delivered(r) \cup {m}
    BY <1>4, <1>6
  <2>2. ASSUME NEW s \in Delivered(r) \cup {m}
        PROVE  \E i \in 1..(Len(g) + 1) : s = Append(g, m)[i]
    <3>1. CASE s = m
      BY <1>4, <3>1
    <3>2. CASE s \in Delivered(r)
      <4>1. PICK i \in 1..Len(g) : s = g[i]
        BY <3>2 DEF Delivered
      <4> QED BY <1>4, <4>1
    <3> QED BY <3>1, <3>2
  <2>3. Delivered(r)' = {Append(g, m)[i] : i \in 1..(Len(g) + 1)}
    BY <1>4, <1>5 DEF Delivered
  <2> QED BY <2>1, <2>2, <2>3
<1>8. Received(r)' = Delivered(r) \cup events
  BY <1>1, <1>5, <1>7 DEF Received
<1>9. ASSUME NEW i \in 1..Len(got'[r]), NEW j \in 1..Len(got'[r]), i < j
      PROVE  got'[r][i] < got'[r][j]
  <2>1. i \in 1..Len(g) /\ got'[r][i] = g[i]
    BY <1>4, <1>5, <1>9
  <2>2. CASE j \in 1..Len(g)
    <3>1. \A k, l \in 1..Len(g) : k < l => g[k] < g[l]
      BY DEF TailInv, ReaderConsistent
    <3> QED BY <1>4, <1>5, <1>9, <2>1, <2>2, <3>1
  <2>3. CASE j = Len(g) + 1
    BY <1>1, <1>4, <1>5, <1>6, <2>1, <2>3
  <2> QED BY <1>4, <1>5, <2>2, <2>3
<1>10. ASSUME NEW s \in Delivered(r)', NEW t \in pending'[r]
       PROVE  s < t
  <2>1. t \in events /\ t # m /\ t \in Nat /\ m <= t
    BY <1>1, <1>5
  <2>2. s \in Delivered(r) \/ s = m
    BY <1>7
  <2> QED BY <1>1, <2>1, <2>2
<1> QED BY <1>2, <1>3, <1>4, <1>8, <1>9, <1>10

(***************************************************************************)
(* A reader that a step does not touch stays consistent.                   *)
(***************************************************************************)
LEMMA OtherReader ==
  ASSUME TailInv, NEW q \in Readers, UNCHANGED <<ever, reads>>, from'[q] = from[q],
         cursor'[q] = cursor[q], pending'[q] = pending[q], got'[q] = got[q],
         state'[q] \in {"none", "finished", "ended"} => state[q] = state'[q]
  PROVE  ReaderConsistent(q)'
<1>1. Delivered(q)' = Delivered(q) /\ Received(q)' = Received(q)
  BY DEF Delivered, Received
<1>2. ReaderConsistent(q)
  BY DEF TailInv
<1> QED BY <1>1, <1>2 DEF ReaderConsistent

(***************************************************************************)
(* next() with events in the buffer.                                       *)
(***************************************************************************)
LEMMA NextBufferedStep ==
  ASSUME TailInv, NEW r \in Readers, NextBuffered(r)
  PROVE  TailTypeOK' /\ \A q \in Readers : ReaderConsistent(q)'
<1>1. /\ pending[r] \in SUBSET Nat /\ pending[r] # {} /\ Yield(r, pending[r])
      /\ \A s \in Delivered(r), t \in pending[r] : s < t
      /\ UNCHANGED <<tableVars, mirror, state, reads, from, cursor, clock, crashes>>
      /\ state[r] \in {"reading", "finished"}
  BY DEF TailInv, TailTypeOK, NextBuffered, ReaderConsistent
<1>2. /\ got' \in [Readers -> Seq(Nat)] /\ pending' \in [Readers -> SUBSET Nat]
      /\ \A q \in Readers \ {r} : got'[q] = got[q] /\ pending'[q] = pending[q]
      /\ Received(r)' = Received(r)
      /\ \A i, j \in 1..Len(got'[r]) : i < j => got'[r][i] < got'[r][j]
      /\ \A s \in Delivered(r)', t \in pending'[r] : s < t
  BY <1>1, YieldStep DEF Received
<1>3. TailTypeOK'
  BY <1>1, <1>2 DEF TailInv, TailTypeOK, tableVars
<1>4. ReaderConsistent(r)'
  <2>1. ReaderConsistent(r)
    BY DEF TailInv
  <2> QED BY <1>1, <1>2, <2>1 DEF ReaderConsistent, tableVars
<1>5. ASSUME NEW q \in Readers \ {r}
      PROVE  ReaderConsistent(q)'
  BY <1>1, <1>2, OtherReader DEF tableVars
<1> QED BY <1>3, <1>4, <1>5

(***************************************************************************)
(* next() that reads rows.                                                 *)
(***************************************************************************)
LEMMA PollStep ==
  ASSUME TailInv, NEW r \in Readers, Poll(r)
  PROVE  TailTypeOK' /\ \A q \in Readers : ReaderConsistent(q)'
<1> DEFINE taken == Taken(reads[r], cursor[r])
           new == Deliverable(taken)
<1>1. /\ state[r] = "reading" /\ pending[r] = {} /\ taken # {}
      /\ cursor' = [cursor EXCEPT ![r] = Largest(taken)]
      /\ Yield(r, new)
      /\ state' = [state EXCEPT ![r] = IF \E s \in taken : rows[s].kind = "exit" THEN "finished" ELSE @]
      /\ UNCHANGED <<tableVars, mirror, reads, from, clock, crashes>>
  BY DEF Poll
<1>2. /\ TailTypeOK /\ ReaderConsistent(r) /\ Len(ever) \in Nat
      /\ from[r] \in Nat /\ cursor[r] \in Nat /\ Received(r) = Delivered(r)
  BY <1>1 DEF TailInv, TailTypeOK, Received
<1>3. \A s \in taken : /\ s \in 1..Len(ever) /\ s > cursor[r] /\ rows[s] = ever[s]
                       /\ ever[s].pty = reads[r] /\ ever[s].kind # "other"
  BY TakenAre
<1>4. /\ new \subseteq taken /\ \A s \in new : ever[s].kind \in {"output", "exit"}
      /\ \A s \in taken : ever[s].kind = "exit" => s \in new
  BY <1>3 DEF Deliverable
<1> HIDE DEF taken, new
<1>5. /\ cursor'[r] = Largest(taken) /\ Largest(taken) \in taken /\ \A s \in taken : s <= Largest(taken)
      /\ cursor' \in [Readers -> Nat] /\ \A q \in Readers \ {r} : cursor'[q] = cursor[q]
  <2>1. taken \in SUBSET (0..Len(ever))
    BY <1>2, <1>3
  <2>2. Largest(taken) \in taken /\ \A s \in taken : s <= Largest(taken)
    BY <1>1, <1>2, <2>1, LargestIs
  <2> QED BY <1>1, <1>2, <1>3, <2>2 DEF TailTypeOK
<1>6. /\ got' \in [Readers -> Seq(Nat)] /\ pending' \in [Readers -> SUBSET Nat]
      /\ \A q \in Readers \ {r} : got'[q] = got[q] /\ pending'[q] = pending[q]
      /\ Received(r)' = Delivered(r) \cup new
      /\ \A i, j \in 1..Len(got'[r]) : i < j => got'[r][i] < got'[r][j]
      /\ \A s \in Delivered(r)', t \in pending'[r] : s < t
  <2>1. CASE new = {}
    <3>1. UNCHANGED <<got, pending>>
      BY <1>1, <2>1 DEF Yield
    <3>2. Delivered(r)' = Delivered(r) /\ Received(r)' = Received(r)
      BY <3>1 DEF Delivered, Received
    <3> QED BY <1>1, <1>2, <2>1, <3>1, <3>2 DEF TailTypeOK, ReaderConsistent
  <2>2. CASE new # {}
    <3>1. new \in SUBSET Nat
      BY <1>2, <1>3, <1>4
    <3>2. \A s \in Delivered(r), t \in new : s < t
      BY <1>2, <1>3, <1>4 DEF ReaderConsistent
    <3> QED BY <1>1, <2>2, <3>1, <3>2, YieldStep
  <2> QED BY <2>1, <2>2
<1>7. /\ state' \in [Readers -> {"none", "reading", "finished", "ended", "failed", "gone"}]
      /\ \A q \in Readers \ {r} : state'[q] = state[q]
      /\ state'[r] \in {"reading", "finished"}
      /\ state'[r] = "finished" => \E s \in taken : rows[s].kind = "exit"
  BY <1>1, <1>2 DEF TailTypeOK
<1>8. TailTypeOK'
  BY <1>1, <1>2, <1>5, <1>6, <1>7 DEF TailTypeOK, tableVars
<1>9. ReaderConsistent(r)'
  <2>1. from'[r] = from[r] /\ reads'[r] = reads[r] /\ ever' = ever
    BY <1>1 DEF tableVars
  <2>2. cursor'[r] \in Nat /\ cursor[r] < cursor'[r] /\ from[r] <= cursor'[r] /\ cursor'[r] <= Len(ever)
    BY <1>2, <1>3, <1>5 DEF ReaderConsistent
  <2>3. ASSUME NEW s \in Received(r)'
        PROVE  /\ s \in 1..Len(ever) /\ from[r] < s /\ s <= cursor'[r]
               /\ ever[s].pty = reads[r] /\ ever[s].kind \in {"output", "exit"}
    <3>1. CASE s \in Delivered(r)
      BY <1>2, <2>2, <3>1 DEF ReaderConsistent
    <3>2. CASE s \in new
      BY <1>2, <1>3, <1>4, <1>5, <3>2 DEF ReaderConsistent
    <3> QED BY <1>6, <2>3, <3>1, <3>2
  <2>4. state'[r] = "finished" => \E s \in Received(r)' : ever[s].kind = "exit"
    BY <1>3, <1>4, <1>6, <1>7
  <2> QED BY <1>6, <1>7, <2>1, <2>2, <2>3, <2>4 DEF ReaderConsistent
<1>10. ASSUME NEW q \in Readers \ {r}
       PROVE  ReaderConsistent(q)'
  BY <1>1, <1>5, <1>6, <1>7, OtherReader DEF tableVars
<1> QED BY <1>8, <1>9, <1>10

-----------------------------------------------------------------------------
(* The invariant. *)

LEMMA TailInitInv == TailInit => TailInv
<1> SUFFICES ASSUME TailInit PROVE TailInv
  OBVIOUS
<1>1. rows = <<>> /\ ever = <<>> /\ Len(ever) = 0 /\ DOMAIN rows = {}
  BY DEF TailInit, TableInit
<1>2. TailTypeOK
  BY <1>1, TailAssumption DEF TailInit, TailTypeOK
<1>3. HoldsLatest /\ ExitIsLast
  BY <1>1 DEF HoldsLatest, ExitIsLast
<1>4. ASSUME NEW r \in Readers
      PROVE  ReaderConsistent(r)
  <2>1. Delivered(r) = {} /\ Received(r) = {} /\ Len(got[r]) = 0
    BY DEF TailInit, Delivered, Received
  <2> QED BY <2>1 DEF TailInit, ReaderConsistent
<1> QED BY <1>2, <1>3, <1>4 DEF TailInv

LEMMA PtyStepInv ==
  ASSUME TailInv, NEW p \in Ptys, PtyStep(p)
  PROVE  TailInv'
<1>1. ASSUME NEW kind \in Kinds, Record(kind, p),
             mirror' \in [Ptys -> {"none", "live", "over", "lost"}],
             kind # "other" => mirror[p] = "live",
             kind = "exit" => mirror'[p] = "over",
             \A q \in Ptys : mirror[q] = "over" => mirror'[q] = "over"
      PROVE  TailInv'
  <2>1. ExitIsLast'
    BY <1>1, RecordExits
  <2>2. \A r \in Readers : ReaderConsistent(r)'
    BY <1>1, RecordReaders
  <2>3. HoldsLatest' /\ TailTypeOK'
    BY <1>1, RecordStep DEF TailInv, TailTypeOK, readerVars
  <2> QED BY <2>1, <2>2, <2>3 DEF TailInv
<1>2. mirror \in [Ptys -> {"none", "live", "over", "lost"}] /\ {"output", "long output", "exit", "stream_failed", "other"} = Kinds
  BY DEF TailInv, TailTypeOK, Kinds
<1>3. CASE OpenPty(p)
  BY <1>1, <1>2, <1>3 DEF OpenPty
<1>4. CASE MirrorOutput(p)
  BY <1>1, <1>2, <1>4 DEF MirrorOutput
<1>5. CASE MirrorExit(p)
  BY <1>1, <1>2, <1>5 DEF MirrorExit
<1>6. CASE MirrorFails(p)
  BY <1>1, <1>2, <1>6 DEF MirrorFails
<1>7. CASE OtherEvent(p)
  BY <1>1, <1>2, <1>7 DEF OtherEvent
<1> QED BY <1>3, <1>4, <1>5, <1>6, <1>7 DEF PtyStep

LEMMA StepInv == TailInv /\ [TailNext]_tailVars => TailInv'
<1> SUFFICES ASSUME TailInv, [TailNext]_tailVars PROVE TailInv'
  OBVIOUS
<1>0. TailTypeOK /\ HoldsLatest /\ ExitIsLast /\ \A r \in Readers : ReaderConsistent(r)
  BY DEF TailInv
<1>1. ASSUME UNCHANGED tableVars, \A p \in Ptys : mirror[p] = "over" => mirror'[p] = "over"
      PROVE  HoldsLatest' /\ ExitIsLast'
  <2>1. rows' = rows /\ ever' = ever /\ \A s \in 1..Len(ever) : ever[s].pty \in Ptys
    <3>1. \A s \in 1..Len(ever) : ever[s] \in Event
      BY <1>0 DEF TailTypeOK
    <3> QED BY <1>1, <3>1, TailAssumption DEF tableVars
  <2> QED BY <1>0, <1>1, <2>1 DEF HoldsLatest, ExitIsLast
<1>2. ASSUME NEW p \in Ptys, PtyStep(p) PROVE TailInv'
  BY <1>2, PtyStepInv
<1>3. ASSUME NEW r \in Readers, NextBuffered(r) PROVE TailInv'
  BY <1>1, <1>3, NextBufferedStep DEF TailInv, NextBuffered
<1>4. ASSUME NEW r \in Readers, Poll(r) PROVE TailInv'
  BY <1>1, <1>4, PollStep DEF TailInv, Poll
<1>5. ASSUME NEW r \in Readers, NextDone(r) PROVE TailInv'
  <2>1. \A q \in Readers \ {r} : ReaderConsistent(q)'
    BY <1>5, OtherReader DEF NextDone, tableVars, TailInv, TailTypeOK
  <2>2. ReaderConsistent(r)'
    <3>1. Delivered(r)' = Delivered(r) /\ Received(r)' = Received(r)
      BY <1>5 DEF NextDone, Delivered, Received
    <3> QED BY <1>0, <1>5, <3>1 DEF NextDone, ReaderConsistent, tableVars
  <2>3. TailTypeOK'
    BY <1>0, <1>5 DEF NextDone, TailTypeOK, tableVars
  <2> QED BY <1>1, <1>5, <2>1, <2>2, <2>3 DEF TailInv, NextDone
<1>6. ASSUME NEW r \in Readers, PollFails(r) PROVE TailInv'
  <2> DEFINE failures == {s \in Taken(reads[r], cursor[r]) : rows[s].kind = "stream_failed"}
  <2>1. /\ failures # {} /\ failures \in SUBSET Nat /\ \A s \in failures : s > cursor[r] /\ s <= Len(ever)
        /\ cursor' = [cursor EXCEPT ![r] = Smallest(failures)] /\ state' = [state EXCEPT ![r] = "failed"]
        /\ UNCHANGED <<tableVars, mirror, reads, from, pending, got, clock, crashes>>
    <3>1. \A s \in failures : s \in Nat /\ s > cursor[r] /\ s <= Len(ever)
      BY TakenAre, <1>0 DEF TailTypeOK
    <3> QED BY <1>6, <3>1 DEF PollFails
  <2> HIDE DEF failures
  <2>2. Smallest(failures) \in Nat /\ Smallest(failures) > cursor[r] /\ Smallest(failures) <= Len(ever)
    BY <2>1, SmallestIs
  <2>3. TailTypeOK'
    BY <1>0, <2>1, <2>2 DEF TailTypeOK, tableVars
  <2>4. \A q \in Readers \ {r} : ReaderConsistent(q)'
    BY <2>1, OtherReader DEF tableVars, TailInv, TailTypeOK
  <2>5. ReaderConsistent(r)'
    <3>1. Delivered(r)' = Delivered(r) /\ Received(r)' = Received(r)
      BY <2>1 DEF Delivered, Received
    <3>2. cursor'[r] \in Nat /\ cursor'[r] > cursor[r] /\ cursor'[r] <= Len(ever) /\ cursor[r] \in Nat /\ from[r] \in Nat /\ state'[r] = "failed"
      BY <1>0, <2>1, <2>2 DEF TailTypeOK
    <3>3. ReaderConsistent(r) /\ ever' = ever /\ reads' = reads /\ from' = from /\ pending' = pending /\ got' = got
      BY <1>0, <2>1 DEF tableVars
    <3>4. \A s \in Received(r) : s \in 1..Len(ever) /\ s <= cursor'[r]
      BY <1>0, <3>2, <3>3 DEF ReaderConsistent, TailTypeOK
    <3> QED BY <3>1, <3>2, <3>3, <3>4 DEF ReaderConsistent
  <2> QED BY <1>1, <2>1, <2>3, <2>4, <2>5 DEF TailInv
<1>7. ASSUME NEW r \in Readers, Leave(r) PROVE TailInv'
  <2>1. \A q \in Readers : ReaderConsistent(q)'
    BY <1>7, OtherReader DEF Leave, tableVars, TailInv, TailTypeOK
  <2>2. TailTypeOK'
    BY <1>0, <1>7 DEF Leave, TailTypeOK, tableVars
  <2> QED BY <1>1, <1>7, <2>1, <2>2 DEF TailInv, Leave
<1>8. ASSUME NEW r \in Readers, NEW c \in 0..MaxEvents, StreamPty(r, c) PROVE TailInv'
  <2>1. \A q \in Readers \ {r} : ReaderConsistent(q)'
    BY <1>8, OtherReader DEF StreamPty, tableVars, TailInv, TailTypeOK
  <2>2. c \in Nat
    BY TailAssumption
  <2>3. TailTypeOK'
    BY <1>0, <1>8, <2>2 DEF StreamPty, TailTypeOK, tableVars
  <2>4. ReaderConsistent(r)'
    <3>1. Delivered(r)' = Delivered(r) /\ Received(r)' = Received(r)
      BY <1>8 DEF StreamPty, Delivered, Received
    <3>2. Received(r) = {} /\ Delivered(r) = {} /\ ReaderConsistent(r)
      BY <1>0, <1>8 DEF StreamPty, ReaderConsistent, Received
    <3>3. from'[r] = c /\ cursor'[r] = c /\ state'[r] = "reading" /\ got' = got /\ pending' = pending
          /\ ever' = ever /\ c <= Len(ever)
      BY <1>0, <1>8 DEF StreamPty, TailTypeOK, tableVars
    <3> QED BY <2>2, <3>1, <3>2, <3>3 DEF ReaderConsistent
  <2> QED BY <1>1, <1>8, <2>1, <2>3, <2>4 DEF TailInv, StreamPty
<1>9. ASSUME ClockMoves PROVE TailInv'
  <2>1. \A q \in Readers : ReaderConsistent(q)'
    BY <1>9, OtherReader DEF ClockMoves, tableVars, readerVars
  <2>2. TailTypeOK'
    BY <1>0, <1>9 DEF ClockMoves, TailTypeOK, tableVars, readerVars
  <2> QED BY <1>1, <1>9, <2>1, <2>2 DEF TailInv, ClockMoves
<1>10. ASSUME Crash PROVE TailInv'
  <2>1. \A q \in Readers : ReaderConsistent(q)'
    BY <1>10, OtherReader DEF Crash, tableVars, TailInv, TailTypeOK
  <2>2. TailTypeOK'
    BY <1>0, <1>10, TailAssumption DEF Crash, TailTypeOK, tableVars
  <2>3. \A p \in Ptys : mirror[p] = "over" => mirror'[p] = "over"
    BY <1>0, <1>10 DEF Crash, TailTypeOK
  <2> QED BY <1>1, <1>10, <2>1, <2>2, <2>3 DEF TailInv, Crash
<1>11. ASSUME UNCHANGED tailVars PROVE TailInv'
  <2>1. \A q \in Readers : ReaderConsistent(q)'
    BY <1>11, OtherReader DEF tailVars, tableVars, readerVars
  <2>2. TailTypeOK'
    BY <1>0, <1>11 DEF tailVars, TailTypeOK, tableVars, readerVars
  <2> QED BY <1>1, <1>11, <2>1, <2>2 DEF TailInv, tailVars
<1> QED BY <1>2, <1>3, <1>4, <1>5, <1>6, <1>7, <1>8, <1>9, <1>10, <1>11 DEF TailNext, ReaderNext

(***************************************************************************)
(* The invariant holds of every reachable state.                           *)
(***************************************************************************)
THEOREM TailInvariance == TailSpec => []TailInv
BY TailInitInv, StepInv, PTL DEF TailSpec

(***************************************************************************)
(* The variables keep their types.                                         *)
(***************************************************************************)
THEOREM TailTypeCorrectness == TailSpec => []TailTypeOK
<1>1. TailInv => TailTypeOK
  BY DEF TailInv
<1> QED BY <1>1, TailInvariance, PTL

(***************************************************************************)
(* The table always holds the latest events under the numbers of their     *)
(* appending (appendRetainedEvent).                                        *)
(***************************************************************************)
THEOREM TableTheorem == TailSpec => []HoldsLatest
<1>1. TailInv => HoldsLatest
  BY DEF TailInv
<1> QED BY <1>1, TailInvariance, PTL

(***************************************************************************)
(* Readers deliver in order, nothing twice, and only what belongs to their *)
(* PTY (createRuntimePtyEventStream).                                      *)
(***************************************************************************)
THEOREM OrderTheorem == TailSpec => []DeliversInOrder
<1>1. TailInv => DeliversInOrder
  BY DEF TailInv, ReaderConsistent, DeliversInOrder, Received
<1> QED BY <1>1, TailInvariance, PTL

(***************************************************************************)
(* A stream that ends in order has delivered the exit last.                *)
(***************************************************************************)
THEOREM EndTheorem == TailSpec => []EndsWithExit
<1>1. TailInv => EndsWithExit
  <2> SUFFICES ASSUME TailInv, NEW r \in Readers, state[r] = "ended"
               PROVE  /\ pending[r] = {}
                      /\ got[r] # <<>>
                      /\ ever[got[r][Len(got[r])]].kind = "exit"
    BY DEF EndsWithExit
  <2> DEFINE g == got[r]
             last == g[Len(g)]
  <2>1. ReaderConsistent(r) /\ ExitIsLast /\ g \in Seq(Nat) /\ pending[r] = {}
    BY DEF TailInv, TailTypeOK, ReaderConsistent
  <2>2. PICK s \in Delivered(r) : ever[s].kind = "exit"
    BY <2>1 DEF ReaderConsistent, Received
  <2>3. PICK i \in 1..Len(g) : s = g[i]
    BY <2>2 DEF Delivered
  <2>4. Len(g) \in 1..Len(g) /\ g # <<>> /\ last \in Delivered(r)
    BY <2>1, <2>3 DEF Delivered
  <2>5. i = Len(g) \/ s < last
    <3>1. i < Len(g) => g[i] < g[Len(g)]
      BY <2>1, <2>4 DEF ReaderConsistent
    <3> QED BY <2>1, <2>3, <3>1
  <2>6. \A t \in {s, last} : t \in 1..Len(ever) /\ ever[t].pty = reads[r] /\ ever[t].kind \in {"output", "exit"}
    BY <2>1, <2>2, <2>4 DEF ReaderConsistent, Received
  <2>7. CASE s < last
    BY <2>1, <2>2, <2>6, <2>7 DEF ExitIsLast
  <2> QED BY <2>1, <2>2, <2>3, <2>4, <2>5, <2>7
<1> QED BY <1>1, TailInvariance, PTL

(***************************************************************************)
(* A reader delivers the outputs of its PTY in their order, each once, and *)
(* an exit ends it when all that it received is delivered                  *)
(* (createRuntimePtyEventStream).                                          *)
(***************************************************************************)
THEOREM ReaderTheorem == TailSpec => []ReadersKeepOrder
BY OrderTheorem, EndTheorem, PTL DEF ReadersKeepOrder

-----------------------------------------------------------------------------
(* Nothing retained is skipped, if the clock is never set back. *)

LEMMA TimesStep ==
  ASSUME ~ClockStepsBack, TailInv, TimesInOrder, [TailNext]_tailVars
  PROVE  TimesInOrder'
<1>1. ASSUME NEW kind \in Kinds, NEW p \in Ptys, Record(kind, p)
      PROVE  TimesInOrder'
  <2>1. /\ Len(ever') = Len(ever) + 1 /\ Len(ever) \in Nat /\ clock' = clock
        /\ \A s \in 1..Len(ever) : ever'[s] = ever[s]
        /\ ever'[Len(ever) + 1].at = clock /\ clock \in Nat
    <3>1. /\ Len(ever') = Len(ever) + 1 /\ clock' = clock
          /\ \A s \in 1..Len(ever) : ever'[s] = ever[s]
          /\ ever'[Len(ever) + 1] = [kind |-> kind, pty |-> p, at |-> clock]
      BY <1>1, RecordStep
    <3> QED BY <3>1, TailAssumption DEF TailInv, TailTypeOK
  <2>2. ASSUME NEW s \in 1..Len(ever')
        PROVE  ever'[s].at <= clock
    BY <2>1 DEF TimesInOrder
  <2>3. ASSUME NEW s \in 1..Len(ever'), NEW t \in 1..Len(ever'), s < t
        PROVE  ever'[s].at <= ever'[t].at
    <3>1. s \in 1..Len(ever)
      BY <2>1, <2>3
    <3>2. CASE t \in 1..Len(ever)
      BY <2>1, <2>3, <3>1, <3>2 DEF TimesInOrder
    <3>3. CASE t = Len(ever) + 1
      BY <2>1, <2>2, <3>3
    <3> QED BY <2>1, <3>2, <3>3
  <2> QED BY <2>1, <2>2, <2>3 DEF TimesInOrder
<1>2. ASSUME ClockMoves
      PROVE  TimesInOrder'
  <2>1. /\ ever' = ever /\ clock \in Nat /\ clock' \in Nat /\ clock < clock'
        /\ \A s \in 1..Len(ever) : ever[s].at \in Nat
    <3>1. \A s \in 1..Len(ever) : ever[s] \in Event
      BY DEF TailInv, TailTypeOK
    <3>2. \A s \in 1..Len(ever) : ever[s].at \in Nat
      BY <3>1, TailAssumption
    <3> QED BY <1>2, <3>2, TailAssumption DEF ClockMoves, TailInv, TailTypeOK, tableVars
  <2> QED BY <2>1 DEF TimesInOrder
<1>3. ASSUME UNCHANGED <<ever, clock>>
      PROVE  TimesInOrder'
  BY <1>3 DEF TimesInOrder
<1>4. ASSUME NEW p \in Ptys, PtyStep(p)
      PROVE  \E kind \in Kinds : Record(kind, p)
  BY <1>4 DEF PtyStep, OpenPty, MirrorOutput, MirrorExit, MirrorFails, OtherEvent, Kinds
<1>5. ASSUME NEW r \in Readers, ReaderNext(r) \/ Leave(r) \/ \E c \in 0..MaxEvents : StreamPty(r, c)
      PROVE  UNCHANGED <<ever, clock>>
  BY <1>5 DEF ReaderNext, NextBuffered, NextDone, Poll, PollFails, Leave, StreamPty, tableVars
<1> QED BY <1>1, <1>2, <1>3, <1>4, <1>5 DEF TailNext, Crash, tailVars, tableVars

(***************************************************************************)
(* A page holds the whole table, since that is never longer than the page. *)
(***************************************************************************)
LEMMA PageIsTable ==
  ASSUME TailInv
  PROVE  Page = DOMAIN rows
<1> DEFINE D == DOMAIN rows
           n == Len(ever)
           lo == IF n > Retention THEN n - Retention + 1 ELSE 1
<1>1. n \in Nat /\ lo \in Nat /\ D = lo..n /\ Retention \in Nat
  BY RetentionAssumption DEF TailInv, TailTypeOK, HoldsLatest
<1>2. IsFiniteSet(D) /\ Cardinality(D) <= Retention
  <2>1. IsFiniteSet(lo..n) /\ Cardinality(lo..n) = IF lo > n THEN 0 ELSE n - lo + 1
    <3>1. lo \in Int /\ n \in Int
      BY <1>1
    <3> HIDE DEF lo, n
    <3> QED BY <3>1, FS_Interval
  <2>2. n - lo + 1 <= Retention
    BY <1>1
  <2> HIDE DEF D, lo, n
  <2> QED BY <1>1, <2>1, <2>2
<1>3. ASSUME NEW s \in D
      PROVE  Cardinality({t \in D : Before(s, t)}) < PageLimit
  <2> DEFINE B == {t \in D : Before(s, t)}
  <2>1. /\ IsFiniteSet(D \ {s}) /\ Cardinality(D \ {s}) = Cardinality(D) - 1
        /\ Cardinality(D) \in Nat
    BY <1>2, FS_RemoveElement, FS_CardinalityType
  <2>2. ~Before(s, s)
    <3>1. rows[s].at \in Nat /\ s \in Nat
      BY <1>1, TailAssumption DEF TailInv, TailTypeOK
    <3> QED BY <3>1 DEF Before
  <2>3. B \in SUBSET (D \ {s})
    BY <2>2
  <2> HIDE DEF B, D
  <2>4. Cardinality(B) <= Cardinality(D \ {s}) /\ Cardinality(B) \in Nat
    BY <2>1, <2>3, FS_Subset, FS_CardinalityType
  <2>5. Cardinality(B) < PageLimit
    BY <1>1, <1>2, <2>1, <2>4, TailAssumption
  <2> QED BY <2>5 DEF B
<1> QED BY <1>3 DEF Page

(***************************************************************************)
(* With times in order, a scan takes every fresh row.                      *)
(***************************************************************************)
LEMMA TakenIsFresh ==
  ASSUME TailInv, TimesInOrder, NEW p \in Ptys, NEW n \in Nat
  PROVE  Taken(p, n) = {s \in DOMAIN rows : s > n /\ rows[s].pty = p /\ rows[s].kind # "other"}
<1>1. Fresh(p, n) = {s \in DOMAIN rows : s > n /\ rows[s].pty = p /\ rows[s].kind # "other"}
  BY PageIsTable DEF Fresh
<1>2. ASSUME NEW s \in DOMAIN rows, NEW t \in DOMAIN rows, t > s
      PROVE  Before(s, t)
  <2>1. /\ s \in 1..Len(ever) /\ t \in 1..Len(ever)
        /\ rows[s] = ever[s] /\ rows[t] = ever[t]
        /\ rows[s] \in Event /\ rows[t] \in Event
    BY DEF TailInv, TailTypeOK, HoldsLatest
  <2>2. rows[s].at \in Nat /\ rows[t].at \in Nat
    BY <2>1, TailAssumption
  <2>3. rows[s].at <= rows[t].at
    BY <1>2, <2>1 DEF TimesInOrder
  <2> QED BY <1>2, <2>1, <2>2, <2>3 DEF Before
<1>3. Fresh(p, n) \subseteq DOMAIN rows
  BY <1>1
<1>4. Taken(p, n) = Fresh(p, n)
  BY <1>2, <1>3 DEF Taken
<1> QED BY <1>1, <1>4

SkipsNone(r) ==
  state[r] \in {"reading", "finished", "ended"} =>
    \A s \in PassedRows(r) : rows[s].kind \in {"output", "exit"} => s \in Received(r)

LEMMA OtherSkips ==
  ASSUME NEW q \in Readers, SkipsNone(q), UNCHANGED <<rows, reads>>,
         Received(q)' = Received(q), from'[q] = from[q], cursor'[q] = cursor[q],
         state'[q] \in {"reading", "finished", "ended"} => state[q] \in {"reading", "finished", "ended"}
  PROVE  SkipsNone(q)'
<1>1. PassedRows(q)' = PassedRows(q)
  BY DEF PassedRows
<1> QED BY <1>1 DEF SkipsNone

(***************************************************************************)
(* A step that reads rows takes them all.                                  *)
(***************************************************************************)
LEMMA PollSkips ==
  ASSUME TailInv, TimesInOrder, NEW r \in Readers, Poll(r), SkipsNone(r)
  PROVE  SkipsNone(r)'
<1> DEFINE taken == Taken(reads[r], cursor[r])
           new == Deliverable(taken)
<1>1. /\ state[r] = "reading" /\ pending[r] = {} /\ Yield(r, new)
      /\ rows' = rows /\ reads' = reads /\ from' = from
  BY DEF Poll, tableVars
<1>2. taken = {s \in DOMAIN rows : s > cursor[r] /\ rows[s].pty = reads[r] /\ rows[s].kind # "other"}
  BY TakenIsFresh DEF TailInv, TailTypeOK
<1>3. Received(r)' = Received(r) \cup new
  <2>1. CASE new = {}
    BY <1>1, <2>1 DEF Yield, Received, Delivered
  <2>2. CASE new # {}
    <3>1. /\ new \in SUBSET Nat /\ Received(r) = Delivered(r) /\ cursor[r] \in Nat
          /\ \A t \in new : t > cursor[r]
      BY <1>1, <1>2 DEF TailInv, TailTypeOK, HoldsLatest, Deliverable, Received
    <3>2. \A s \in Delivered(r), t \in new : s < t
      <4>1. \A s \in Delivered(r) : s \in Nat /\ s <= cursor[r]
        BY <3>1 DEF TailInv, ReaderConsistent
      <4> HIDE DEF new
      <4> QED BY <3>1, <4>1
    <3> HIDE DEF new
    <3> QED BY <1>1, <2>2, <3>1, <3>2, YieldStep
  <2> QED BY <2>1, <2>2
<1>4. ASSUME NEW s \in PassedRows(r)', rows'[s].kind \in {"output", "exit"}
      PROVE  s \in Received(r)'
  <2>1. /\ s \in DOMAIN rows /\ from[r] < s /\ rows[s].pty = reads[r] /\ rows[s].kind \in {"output", "exit"}
        /\ s \in Nat /\ cursor[r] \in Nat
    BY <1>1, <1>4 DEF PassedRows, TailInv, HoldsLatest, TailTypeOK
  <2>2. CASE s <= cursor[r]
    BY <1>1, <1>3, <2>1, <2>2 DEF PassedRows, SkipsNone
  <2>3. CASE s > cursor[r]
    BY <1>2, <1>3, <2>1, <2>3 DEF Deliverable
  <2> QED BY <2>1, <2>2, <2>3
<1> QED BY <1>4 DEF SkipsNone

LEMMA SkipStep ==
  ASSUME TailInv, TimesInOrder, SkipsNothingRetained, [TailNext]_tailVars
  PROVE  SkipsNothingRetained'
<1> SUFFICES ASSUME NEW q \in Readers PROVE SkipsNone(q)'
  BY DEF SkipsNothingRetained, SkipsNone
<1>1. SkipsNone(q) /\ TailTypeOK
  BY DEF SkipsNothingRetained, SkipsNone, TailInv
<1>2. ASSUME NEW kind \in Kinds, NEW p \in Ptys, Record(kind, p)
      PROVE  SkipsNone(q)'
  <2>1. /\ HoldsLatest /\ HoldsLatest' /\ Len(ever') = Len(ever) + 1 /\ Len(ever) \in Nat
        /\ \A s \in 1..Len(ever) : ever'[s] = ever[s]
        /\ UNCHANGED readerVars
        /\ cursor[q] <= Len(ever) /\ cursor[q] \in Nat
    <3>1. /\ HoldsLatest' /\ Len(ever') = Len(ever) + 1
          /\ \A s \in 1..Len(ever) : ever'[s] = ever[s]
          /\ UNCHANGED readerVars
      BY <1>2, RecordStep
    <3> QED BY <3>1 DEF TailInv, ReaderConsistent, TailTypeOK
  <2>2. Received(q)' = Received(q)
    BY <2>1 DEF Received, Delivered, readerVars
  <2>3. ASSUME NEW s \in PassedRows(q)'
        PROVE  s \in PassedRows(q) /\ rows'[s] = rows[s]
    <3>1. /\ s \in DOMAIN rows' /\ from[q] < s /\ s <= cursor[q] /\ rows'[s].pty = reads[q]
      BY <2>1, <2>3 DEF PassedRows, readerVars
    <3>2. s \in DOMAIN rows /\ s \in 1..Len(ever)
      BY <2>1, <3>1, RetentionAssumption DEF HoldsLatest
    <3>3. rows'[s] = rows[s]
      BY <2>1, <3>1, <3>2 DEF HoldsLatest
    <3> QED BY <3>1, <3>2, <3>3 DEF PassedRows
  <2> QED BY <1>1, <2>1, <2>2, <2>3 DEF SkipsNone, readerVars
<1>3. ASSUME NEW p \in Ptys, PtyStep(p)
      PROVE  \E kind \in Kinds : Record(kind, p)
  BY <1>3 DEF PtyStep, OpenPty, MirrorOutput, MirrorExit, MirrorFails, OtherEvent, Kinds
<1>4. ASSUME NEW r \in Readers, NextBuffered(r)
      PROVE  SkipsNone(q)'
  <2>1. Received(q)' = Received(q)
    <3>1. CASE q = r
      <4>1. /\ pending[r] \in SUBSET Nat /\ pending[r] # {} /\ Yield(r, pending[r])
            /\ \A s \in Delivered(r), t \in pending[r] : s < t
        BY <1>4 DEF TailInv, TailTypeOK, NextBuffered, ReaderConsistent
      <4> QED BY <3>1, <4>1, YieldStep DEF Received
    <3>2. CASE q # r
      BY <1>1, <1>4, <3>2 DEF NextBuffered, Yield, Received, Delivered, TailTypeOK
    <3> QED BY <3>1, <3>2
  <2> QED BY <1>1, <1>4, <2>1, OtherSkips DEF NextBuffered, tableVars
<1>5. ASSUME NEW r \in Readers, Poll(r)
      PROVE  SkipsNone(q)'
  <2>1. CASE q = r
    BY <1>1, <1>5, <2>1, PollSkips
  <2>2. CASE q # r
    <3>1. Received(q)' = Received(q)
      BY <1>1, <1>5, <2>2 DEF Poll, Yield, Received, Delivered, TailTypeOK
    <3>2. cursor'[q] = cursor[q] /\ state'[q] = state[q] /\ UNCHANGED <<rows, reads, from>>
      BY <1>1, <1>5, <2>2 DEF Poll, TailTypeOK, tableVars
    <3> QED BY <1>1, <3>1, <3>2, OtherSkips
  <2> QED BY <2>1, <2>2
<1>6. ASSUME NEW r \in Readers, NextDone(r) \/ PollFails(r) \/ Leave(r)
      PROVE  SkipsNone(q)'
  <2>1. Received(q)' = Received(q) /\ UNCHANGED <<rows, reads, from>>
    BY <1>6 DEF NextDone, PollFails, Leave, Received, Delivered, tableVars
  <2>2. CASE PollFails(r) /\ q = r
    BY <1>1, <2>2 DEF PollFails, SkipsNone, TailTypeOK
  <2>3. CASE ~(PollFails(r) /\ q = r)
    <3>1. /\ cursor'[q] = cursor[q]
          /\ state'[q] \in {"reading", "finished", "ended"} => state[q] \in {"reading", "finished", "ended"}
      BY <1>1, <1>6, <2>3 DEF NextDone, PollFails, Leave, TailTypeOK
    <3> QED BY <1>1, <2>1, <3>1, OtherSkips
  <2> QED BY <2>2, <2>3
<1>7. ASSUME NEW r \in Readers, NEW c \in 0..MaxEvents, StreamPty(r, c)
      PROVE  SkipsNone(q)'
  <2>1. CASE q = r
    <3>1. from'[q] = c /\ cursor'[q] = c /\ c \in Nat
      BY <1>1, <1>7, <2>1, TailAssumption DEF StreamPty, TailTypeOK
    <3>2. \A s \in DOMAIN rows' : s \in Nat
      BY <1>7 DEF StreamPty, tableVars, TailInv, HoldsLatest
    <3> QED BY <3>1, <3>2 DEF SkipsNone, PassedRows
  <2>2. CASE q # r
    <3>1. Received(q)' = Received(q) /\ UNCHANGED <<rows, reads>>
      BY <1>7 DEF StreamPty, Received, Delivered, tableVars
    <3>2. from'[q] = from[q] /\ cursor'[q] = cursor[q] /\ state'[q] = state[q]
      BY <1>1, <1>7, <2>2 DEF StreamPty, TailTypeOK
    <3> QED BY <1>1, <3>1, <3>2, OtherSkips
  <2> QED BY <2>1, <2>2
<1>8. ASSUME ClockMoves \/ Crash \/ UNCHANGED tailVars
      PROVE  SkipsNone(q)'
  <2>1. /\ Received(q)' = Received(q) /\ UNCHANGED <<rows, reads, from, cursor>>
        /\ state'[q] \in {"reading", "finished", "ended"} => state[q] \in {"reading", "finished", "ended"}
    BY <1>8 DEF ClockMoves, Crash, tailVars, tableVars, readerVars, Received, Delivered
  <2> QED BY <1>1, <2>1, OtherSkips
<1> QED BY <1>2, <1>3, <1>4, <1>5, <1>6, <1>7, <1>8 DEF TailNext, ReaderNext

(***************************************************************************)
(* With a clock that is never set back, a reader passes over nothing that  *)
(* is still retained, however much is appended and trimmed between its     *)
(* polls (createRuntimePtyEventStream over listRuntimeSessionEvents).      *)
(***************************************************************************)
THEOREM NoSkipTheorem ==
  ASSUME ~ClockStepsBack
  PROVE  TailSpec => []SkipsNothingRetained
<1>1. TailInit => TimesInOrder /\ SkipsNothingRetained
  <2> SUFFICES ASSUME TailInit PROVE TimesInOrder /\ SkipsNothingRetained
    OBVIOUS
  <2>1. Len(ever) = 0 /\ \A r \in Readers : state[r] = "none"
    BY DEF TailInit, TableInit
  <2> QED BY <2>1 DEF TimesInOrder, SkipsNothingRetained
<1>2. TailInv /\ TimesInOrder /\ SkipsNothingRetained /\ [TailNext]_tailVars => TimesInOrder' /\ SkipsNothingRetained'
  BY TimesStep, SkipStep
<1> QED BY <1>1, <1>2, TailInvariance, PTL DEF TailSpec
=============================================================================
