------------------------- MODULE AgentContextProofs -------------------------
(***************************************************************************)
(* Theorems about AgentContext, for any thresholds, sizes and bounds: the  *)
(* log is the conversation up to the offset (LogExact), what the LLM is    *)
(* sent is in it (OneRoundAtRisk), a compaction in the background works on *)
(* a beginning of the conversation (SnapshotPrefix), and what an attempt   *)
(* began with stays in front (HeadKept).  How many tokens a conversation   *)
(* has plays no part: Tokens stays folded throughout.                      *)
(***************************************************************************)
EXTENDS AgentContext, SequenceTheorems, FiniteSetTheorems, TLAPS

USE ContextAssumption DEF ContextAssumption

-----------------------------------------------------------------------------
(* What a compaction returns. *)

Result == [messages : Seq(Message), compacted : BOOLEAN, level : 0..3]

\* The fields of a message.
LEMMA MsgType ==
    ASSUME NEW k \in Kinds, NEW t \in Nat, NEW n \in Nat, NEW s \in Nat
    PROVE  Msg(k, t, n, s) \in Message /\ Msg(k, t, n, s).kind = k /\ Msg(k, t, n, s).turn = t
BY DEF Msg, Message

\* What a compaction keeps of both ends of a list that is long enough.
LEMMA EndsType ==
    ASSUME NEW ms \in Seq(Message), ~TooShort(ms)
    PROVE  /\ Head_(ms) \in Seq(Message) /\ Len(Head_(ms)) = KeepFirst
           /\ \A i \in 1..KeepFirst : Head_(ms)[i] = ms[i]
           /\ Tail_(ms) \in Seq(Message)
           /\ Last(Middle(ms)) \in Message
<1>1. Len(ms) \in Nat /\ Len(ms) > KeepFirst + KeepRecent /\ \A i \in 1..Len(ms) : ms[i] \in Message
  BY DEF TooShort
<1>2. Head_(ms) \in Seq(Message) /\ Len(Head_(ms)) = KeepFirst
      /\ \A i \in 1..KeepFirst : Head_(ms)[i] = ms[i]
  <2>1. \A i \in 1..KeepFirst : ms[i] \in Message
    BY <1>1
  <2> QED BY <1>1, <2>1, SubSeqProperties DEF Head_
<1>3. Tail_(ms) \in Seq(Message)
  <2>1. \A i \in Len(ms) - KeepRecent + 1 .. Len(ms) : ms[i] \in Message
    BY <1>1
  <2> QED BY <1>1, <2>1, SubSeqProperties DEF Tail_
<1>4. Middle(ms) \in Seq(Message) /\ Len(Middle(ms)) \in Nat \ {0}
  <2>1. \A i \in KeepFirst + 1 .. Len(ms) - KeepRecent : ms[i] \in Message
    BY <1>1
  <2> QED BY <1>1, <2>1, SubSeqProperties DEF Middle
<1>5. Last(Middle(ms)) \in Message
  BY <1>4 DEF Last
<1> QED BY <1>2, <1>3, <1>5

\* The elements of two lists put together.
LEMMA Joins ==
    ASSUME NEW s \in Seq(Message), NEW t \in Seq(Message)
    PROVE  /\ s \o t \in Seq(Message)
           /\ Len(s \o t) = Len(s) + Len(t)
           /\ \A i \in 1..Len(s) : (s \o t)[i] = s[i]
           /\ \A i \in 1..Len(t) : (s \o t)[Len(s) + i] = t[i]
<1>1. Len(s) \in Nat /\ Len(t) \in Nat
  OBVIOUS
<1>2. /\ s \o t \in Seq(Message) /\ Len(s \o t) = Len(s) + Len(t)
      /\ \A i \in 1..Len(s) + Len(t) : (s \o t)[i] = IF i <= Len(s) THEN s[i] ELSE t[i - Len(s)]
  BY ConcatProperties
<1>3. ASSUME NEW i \in 1..Len(t) PROVE (s \o t)[Len(s) + i] = t[i]
  BY <1>1, <1>2
<1> QED BY <1>1, <1>2, <1>3

\* A prefix, element by element.
LEMMA PrefixElements ==
    ASSUME NEW p \in Seq(Message), NEW m \in Seq(Message)
    PROVE  IsPrefix(p, m) <=> Len(p) <= Len(m) /\ \A i \in 1..Len(p) : m[i] = p[i]
<1>1. Len(p) \in Nat /\ Len(m) \in Nat /\ \A i \in 1..Len(m) : m[i] \in Message
  OBVIOUS
<1>2. SubSeq(p, 1, Len(p)) = p
  BY SubSeqFull
<1>3. CASE Len(p) <= Len(m)
  <2> DEFINE q == SubSeq(m, 1, Len(p))
  <2>1. q \in Seq(Message) /\ Len(q) = Len(p) /\ \A i \in 1..Len(p) : q[i] = m[i]
    <3>1. \A i \in 1..Len(p) : m[i] \in Message
      BY <1>1, <1>3
    <3> QED BY <1>1, <3>1, SubSeqProperties
  <2>2. q = p <=> \A i \in 1..Len(p) : q[i] = p[i]
    <3>1. ASSUME \A i \in 1..Len(p) : q[i] = p[i] PROVE q = p
      <4> HIDE DEF q
      <4> QED BY <2>1, <3>1, SeqEqual
    <3> QED BY <3>1
  <2> QED BY <1>2, <1>3, <2>1, <2>2 DEF IsPrefix
<1>4. CASE ~(Len(p) <= Len(m))
  BY <1>4 DEF IsPrefix
<1> QED BY <1>3, <1>4

\* A conversation put together from the head, something, and the tail.
LEMMA Joined ==
    ASSUME NEW ms \in Seq(Message), ~TooShort(ms), NEW rest \in Seq(Message)
    PROVE  /\ Head_(ms) \o rest \o Tail_(ms) \in Seq(Message)
           /\ \A p \in Seq(Message) : Len(p) <= KeepFirst /\ IsPrefix(p, ms)
                  => IsPrefix(p, Head_(ms) \o rest \o Tail_(ms))
<1> DEFINE front == Head_(ms) \o rest
           all   == front \o Tail_(ms)
<1>1. /\ front \in Seq(Message) /\ Len(front) = KeepFirst + Len(rest)
      /\ \A i \in 1..KeepFirst : front[i] = ms[i]
  <2>1. /\ Head_(ms) \in Seq(Message) /\ Len(Head_(ms)) = KeepFirst
        /\ \A i \in 1..KeepFirst : Head_(ms)[i] = ms[i]
    BY EndsType
  <2>2. /\ front \in Seq(Message) /\ Len(front) = Len(Head_(ms)) + Len(rest)
        /\ \A i \in 1..Len(Head_(ms)) : front[i] = Head_(ms)[i]
    BY <2>1, Joins
  <2> HIDE DEF front
  <2> QED BY <2>1, <2>2
<1>2. all \in Seq(Message) /\ Len(all) = Len(front) + Len(Tail_(ms))
      /\ \A i \in 1..Len(front) : all[i] = front[i]
  <2> HIDE DEF front
  <2> QED BY <1>1, EndsType, Joins
<1>3. Len(rest) \in Nat /\ Len(Tail_(ms)) \in Nat
  BY EndsType
<1>4. ASSUME NEW p \in Seq(Message), Len(p) <= KeepFirst, IsPrefix(p, ms) PROVE IsPrefix(p, all)
  <2>1. \A i \in 1..Len(p) : ms[i] = p[i]
    BY <1>4, PrefixElements
  <2>2. Len(p) <= Len(all) /\ \A i \in 1..Len(p) : all[i] = p[i]
    <3> HIDE DEF front, all
    <3> QED BY <1>1, <1>2, <1>3, <1>4, <2>1
  <2> HIDE DEF all
  <2> QED BY <1>2, <2>2, PrefixElements
<1> QED BY <1>2, <1>4

\* A compaction yields one of the lists it may choose, at its level.
LEMMA OutcomeOf ==
    ASSUME NEW S, NEW level \in 0..3, NEW c \in Outcomes(S, level)
    PROVE  /\ c.messages \in S /\ c.level = level
           /\ c.messages \in Seq(Message) => c \in Result
<1>1. PICK m \in S : c = [messages |-> m, compacted |-> TRUE, level |-> level]
  BY DEF Outcomes
<1> QED BY <1>1 DEF Result

\* A result is a conversation again, and unless it is the last resort it has
\* the head of the one it was made from.
LEMMA CompactionsType ==
    ASSUME NEW ms \in Seq(Message), NEW threshold, NEW c \in Compactions(ms, threshold)
    PROVE  /\ c \in Result
           /\ \A p \in Seq(Message) : Len(p) <= KeepFirst /\ IsPrefix(p, ms) /\ c.level # 3
                  => IsPrefix(p, c.messages)
<1>1. CASE c = [messages |-> ms, compacted |-> FALSE, level |-> 0]
  BY <1>1 DEF Result
<1>2. CASE ~TooShort(ms) /\ c \in Outcomes(Summaries(ms), 1)
  <2>1. PICK s \in SummarySizes :
            c.messages = Head_(ms) \o <<Msg("summary", Last(Middle(ms)).turn, 0, s)>> \o Tail_(ms)
    <3>1. c.messages \in Summaries(ms)
      BY <1>2, OutcomeOf
    <3> QED BY <3>1 DEF Summaries
  <2>2. Last(Middle(ms)).turn \in Nat
    BY <1>2, EndsType DEF Message
  <2>3. <<Msg("summary", Last(Middle(ms)).turn, 0, s)>> \in Seq(Message)
    <3>1. "summary" \in Kinds /\ s \in Nat /\ 0 \in Nat
      BY DEF Kinds
    <3>2. Msg("summary", Last(Middle(ms)).turn, 0, s) \in Message
      BY <2>2, <3>1, MsgType
    <3> QED BY <3>2
  <2>4. /\ c.messages \in Seq(Message)
        /\ \A p \in Seq(Message) : Len(p) <= KeepFirst /\ IsPrefix(p, ms) => IsPrefix(p, c.messages)
    BY <1>2, <2>1, <2>3, Joined
  <2> QED BY <1>2, <2>4, OutcomeOf
<1>3. CASE c \in Outcomes(Level2(ms), 2)
  <2>1. ~TooShort(ms) /\ c.messages \in Windows(ms)
    BY <1>3, OutcomeOf DEF Level2, Longest
  <2>2. PICK rest \in Seq(Message) : c.messages = Head_(ms) \o rest \o Tail_(ms)
    <3>1. PICK rest \in Rests(ms) : c.messages = Head_(ms) \o rest \o Tail_(ms)
      BY <2>1 DEF Windows
    <3>2. Rests(ms) \subseteq Seq(Message)
      BY DEF Rests
    <3> QED BY <3>1, <3>2
  <2>3. /\ c.messages \in Seq(Message)
        /\ \A p \in Seq(Message) : Len(p) <= KeepFirst /\ IsPrefix(p, ms) => IsPrefix(p, c.messages)
    BY <2>1, <2>2, Joined
  <2> QED BY <1>3, <2>3, OutcomeOf
<1>4. CASE c \in Outcomes(Level3(ms), 3)
  <2>1. PICK k \in 1..Len(ms) : c.messages = SubSeq(ms, k, Len(ms))
    BY <1>4, OutcomeOf DEF Level3, Longest
  <2>2. c.messages \in Seq(Message)
    <3>1. k \in Int /\ Len(ms) \in Int /\ \A i \in k..Len(ms) : ms[i] \in Message
      OBVIOUS
    <3> QED BY <2>1, <3>1, SubSeqProperties
  <2> QED BY <1>4, <2>2, OutcomeOf
<1> QED BY <1>1, <1>2, <1>3, <1>4 DEF Compactions

-----------------------------------------------------------------------------
(* The ways the conversation and its log change. *)

TalkOK ==
    /\ messages \in Seq(Message) /\ log \in Seq(Message) /\ held \in Seq(Message)
    /\ offset \in 0..Len(messages) /\ base \in 0..offset
    /\ LogExact

\* A part that lies in the first of two lists.
LEMMA SubSeqOfJoined ==
    ASSUME NEW s \in Seq(Message), NEW t \in Seq(Message), NEW n \in 0..Len(s), NEW m \in 1..n+1
    PROVE  SubSeq(s \o t, m, n) = SubSeq(s, m, n)
<1>1. CASE m = n + 1
  <2>1. n < m /\ m \in Int /\ n \in Int
    BY <1>1
  <2> QED BY <2>1, SubSeqEmpty
<1>2. CASE m # n + 1
  <2>1. m \in 1..Len(s) /\ n \in 1..Len(s)
    BY <1>2
  <2> QED BY <2>1, SubSeqOfConcat1
<1> QED BY <1>1, <1>2

\* A prefix stays one when messages are appended.
LEMMA PrefixGrows ==
    ASSUME NEW s \in Seq(Message), NEW m \in Seq(Message), NEW t \in Seq(Message), IsPrefix(s, m)
    PROVE  IsPrefix(s, m \o t)
<1>1. Len(s) \in 0..Len(m) /\ 1 \in 1..Len(s)+1 /\ Len(t) \in Nat
  BY DEF IsPrefix
<1>2. SubSeq(m \o t, 1, Len(s)) = SubSeq(m, 1, Len(s))
  BY <1>1, SubSeqOfJoined
<1>3. Len(m \o t) = Len(m) + Len(t)
  BY Joins
<1> QED BY <1>1, <1>2, <1>3 DEF IsPrefix

\* A list is a prefix of itself.
LEMMA PrefixOfItself == ASSUME NEW s \in Seq(Message) PROVE IsPrefix(s, s)
BY DEF IsPrefix

\* A message is added, and not flushed.
LEMMA TalkAdds ==
    ASSUME TalkOK, NEW t \in Seq(Message), messages' = messages \o t,
           UNCHANGED <<log, offset, base, held>>
    PROVE  TalkOK'
<1>1. messages' \in Seq(Message) /\ Len(messages') = Len(messages) + Len(t)
  BY Joins DEF TalkOK
<1>2. SubSeq(messages', base + 1, offset) = SubSeq(messages, base + 1, offset)
  <2>1. messages \in Seq(Message) /\ offset \in 0..Len(messages) /\ base + 1 \in 1..offset+1
    BY DEF TalkOK
  <2> QED BY <2>1, SubSeqOfJoined
<1>3. offset' \in 0..Len(messages') /\ base' \in 0..offset'
  <2>1. Len(messages) \in Nat /\ Len(t) \in Nat
    BY DEF TalkOK
  <2> QED BY <1>1, <2>1 DEF TalkOK
<1>4. LogExact'
  BY <1>2 DEF TalkOK, LogExact
<1>5. log' \in Seq(Message) /\ held' \in Seq(Message)
  BY DEF TalkOK
<1> QED BY <1>1, <1>3, <1>4, <1>5 DEF TalkOK

\* Messages, or none, are added, and all is flushed.
LEMMA TalkFlushes ==
    ASSUME TalkOK, NEW t \in Seq(Message), messages' = messages \o t, Flush
    PROVE  TalkOK' /\ offset' = Len(messages')
<1>1. /\ messages' \in Seq(Message) /\ Len(messages') = Len(messages) + Len(t)
      /\ Len(messages) \in Nat /\ Len(t) \in Nat /\ Len(messages') \in Nat
  BY Joins DEF TalkOK
<1>2. SubSeq(messages', base + 1, offset) = SubSeq(messages, base + 1, offset)
  <2>1. messages \in Seq(Message) /\ offset \in 0..Len(messages) /\ base + 1 \in 1..offset+1
    BY DEF TalkOK
  <2> QED BY <2>1, SubSeqOfJoined
<1>3. SubSeq(messages', base + 1, offset) \o SubSeq(messages', offset + 1, Len(messages'))
          = SubSeq(messages', base + 1, Len(messages'))
  <2>1. /\ base + 1 \in 1..Len(messages')+1
        /\ offset \in (base + 1) - 1 .. Len(messages')
        /\ Len(messages') \in offset..Len(messages')
    BY <1>1 DEF TalkOK
  <2> QED BY <1>1, <2>1, ConcatAdjacentSubSeq
<1>4. log' = held \o SubSeq(messages', base + 1, Len(messages'))
  <2> DEFINE a == SubSeq(messages', base + 1, offset)
             b == SubSeq(messages', offset + 1, Len(messages'))
  <2>1. a \in Seq(Message) /\ b \in Seq(Message) /\ held \in Seq(Message)
    <3>1. /\ \A i \in base + 1 .. offset : messages'[i] \in Message
          /\ \A i \in offset + 1 .. Len(messages') : messages'[i] \in Message
          /\ base + 1 \in Int /\ offset + 1 \in Int /\ offset \in Int /\ Len(messages') \in Int
          /\ held \in Seq(Message)
      BY <1>1 DEF TalkOK
    <3> QED BY <3>1, SubSeqProperties
  <2>2. log' = (held \o a) \o b
    BY <1>2 DEF TalkOK, LogExact, Flush
  <2>3. (held \o a) \o b = held \o (a \o b)
    <3> HIDE DEF a, b
    <3> QED BY <2>1, ConcatAssociative
  <2> QED BY <1>3, <2>2, <2>3
<1>5. log' \in Seq(Message) /\ held' \in Seq(Message)
  <2>1. \A i \in base + 1 .. Len(messages') : messages'[i] \in Message
    BY <1>1 DEF TalkOK
  <2>2. base + 1 \in Int /\ Len(messages') \in Int
    BY <1>1 DEF TalkOK
  <2>3. SubSeq(messages', base + 1, Len(messages')) \in Seq(Message)
    BY <2>1, <2>2, SubSeqProperties
  <2> QED BY <1>4, <2>3, Joins DEF TalkOK, Flush, marks
<1>6. /\ offset' = Len(messages') /\ base' = base /\ base \in 0..Len(messages')
      /\ held' = held
  BY <1>1 DEF TalkOK, Flush, marks
<1> QED BY <1>1, <1>4, <1>5, <1>6 DEF TalkOK, LogExact

\* Steps that leave the conversation and its log alone.
LEMMA TalkUnchanged ==
    ASSUME TalkOK, UNCHANGED <<messages, log, offset, base, held>> PROVE TalkOK'
BY DEF TalkOK, LogExact

\* A conversation that replaces the old one is flushed as a whole.
LEMMA TalkReplaced ==
    ASSUME NEW c \in Result, Replace(c)
    PROVE  TalkOK' /\ offset' = Len(messages') /\ messages' = c.messages
<1>1. c.messages \in Seq(Message)
  BY DEF Result
<1>2. SubSeq(c.messages, 1, Len(c.messages)) = c.messages /\ << >> \o c.messages = c.messages
  BY <1>1, SubSeqFull, ConcatEmptySeq
<1> QED BY <1>1, <1>2 DEF TalkOK, LogExact, Replace

\* The empty sequence is added where nothing is.
LEMMA NothingAdded == ASSUME NEW s \in Seq(Message) PROVE s = s \o << >> /\ << >> \in Seq(Message)
BY ConcatEmptySeq

-----------------------------------------------------------------------------
(* The inductive invariant. *)

\* What the place the loop is at says of the rest.
Where ==
    /\ pc = "tools" => done < calls
    /\ pc = "idle" => log = << >>
    /\ pc = "idle" <=> attempts = 0
    /\ attempts <= 1 => held = << >>
    /\ pc \in {"idle", "over", "compact"} => task = "none"

\* OneRoundAtRisk, and between two steps nothing is at risk.
Flushed ==
    \A i \in offset + 1 .. Len(messages) :
        messages[i].kind = "user" \/ (messages[i].turn = turn /\ pc \notin {"step", "calling"})

\* What the attempt began with is in front of the conversation, of what of it
\* passes for logged, of the copy the background works on, and of what that
\* returns.
HeadsKept ==
    /\ head \in Seq(Message) /\ Len(head) <= KeepFirst
    /\ ~cut => /\ IsPrefix(head, messages) /\ Len(head) <= offset
               /\ task = "running" => IsPrefix(head, snapshot)
               /\ task = "ready" /\ result.compacted /\ result.level # 3
                      => IsPrefix(head, result.messages)

\* The types of the conversation, with what the log's exactness adds.
LEMMA TypeOfTalk == TypeOK /\ LogExact => TalkOK
BY DEF TypeOK, TalkOK

\* Appending one message, as a concatenation.
LEMMA OneMessage ==
    ASSUME NEW k \in Kinds, NEW t \in Nat, NEW n \in Nat, NEW s \in Nat, NEW m \in Seq(Message)
    PROVE  /\ <<Msg(k, t, n, s)>> \in Seq(Message)
           /\ Append(m, Msg(k, t, n, s)) = m \o <<Msg(k, t, n, s)>>
BY MsgType, AppendIsConcat

\* The conversation starts with the system prompt and the task.
LEMMA PromptType ==
    ASSUME TypeOK
    PROVE  Prompt \in Seq(Message) /\ Len(Prompt) = 2
<1>1. "system" \in Kinds /\ "user" \in Kinds /\ turn \in Nat
  BY DEF Kinds, TypeOK
<1>2. Msg("system", turn, 0, 1) \in Message /\ Msg("user", turn, 0, 1) \in Message
  BY <1>1, MsgType
<1> QED BY <1>2 DEF Prompt

\* The head of what an attempt begins with is in front of it.
LEMMA OpeningType ==
    ASSUME NEW ms \in Seq(Message)
    PROVE  /\ Opening(ms) \in Seq(Message) /\ IsPrefix(Opening(ms), ms)
           /\ Len(Opening(ms)) <= KeepFirst /\ Len(Opening(ms)) <= Len(ms)
<1> DEFINE n == IF Len(ms) < KeepFirst THEN Len(ms) ELSE KeepFirst
<1>1. n \in Nat /\ n <= Len(ms) /\ n <= KeepFirst /\ Len(ms) \in Nat
      /\ \A i \in 1..n : ms[i] \in Message
  OBVIOUS
<1>2. /\ Opening(ms) \in Seq(Message) /\ Len(Opening(ms)) = n
      /\ \A i \in 1..n : Opening(ms)[i] = ms[i]
  <2> HIDE DEF n
  <2>1. Opening(ms) = SubSeq(ms, 1, n)
    BY DEF Opening, n
  <2> QED BY <1>1, <2>1, SubSeqProperties
<1>3. IsPrefix(Opening(ms), ms)
  <2> HIDE DEF n
  <2> QED BY <1>1, <1>2, PrefixElements
<1> HIDE DEF n
<1> QED BY <1>1, <1>2, <1>3

\* What a resume starts from is a conversation, a message for every event.
LEMMA RebuiltType ==
    ASSUME TypeOK, NEW es \in EventsLeft
    PROVE  /\ es \in Seq(Kinds)
           /\ Rebuilt(es) \in Seq(Message) /\ Len(Rebuilt(es)) = Len(es)
           /\ turn + CallsUpTo(es, Len(es)) \in Nat
<1>1. es \in Seq(Kinds)
  <2>1. PICK k \in 1..Len(earlier)+1 : es = told \o SubSeq(earlier, k, Len(earlier))
    BY DEF EventsLeft
  <2>2. told \in Seq(Kinds) /\ earlier \in Seq(Kinds)
    BY DEF TypeOK
  <2>3. SubSeq(earlier, k, Len(earlier)) \in Seq(Kinds)
    <3>1. k \in Int /\ Len(earlier) \in Int /\ \A i \in k..Len(earlier) : earlier[i] \in Kinds
      BY <2>2
    <3> QED BY <3>1, SubSeqProperties
  <2> QED BY <2>1, <2>2, <2>3, ConcatProperties
<1>2. ASSUME NEW i \in Nat PROVE CallsUpTo(es, i) \in Nat
  <2> DEFINE S == {j \in 1..i : es[j] = "calls"}
  <2>1. IsFiniteSet(1..i) /\ S \subseteq 1..i
    BY FS_Interval
  <2>2. Cardinality(S) \in Nat
    <3> HIDE DEF S
    <3> QED BY <2>1, FS_Subset, FS_CardinalityType
  <2> QED BY <2>2 DEF CallsUpTo
<1>3. ASSUME NEW i \in 1..Len(es)
      PROVE  Msg(es[i], turn + CallsUpTo(es, i), IF es[i] = "text" THEN 0 ELSE 1, 1) \in Message
  <2>1. es[i] \in Kinds /\ turn \in Nat /\ CallsUpTo(es, i) \in Nat
    BY <1>1, <1>2 DEF TypeOK
  <2>2. turn + CallsUpTo(es, i) \in Nat /\ (IF es[i] = "text" THEN 0 ELSE 1) \in Nat /\ 1 \in Nat
    BY <2>1
  <2> HIDE DEF CallsUpTo
  <2> QED BY <2>1, <2>2, MsgType
<1>4. Len(es) \in Nat /\ DOMAIN es = 1..Len(es) /\ turn \in Nat
  BY <1>1 DEF TypeOK
<1>5. Rebuilt(es) \in Seq(Message) /\ Len(Rebuilt(es)) = Len(es)
  BY <1>3, <1>4 DEF Rebuilt
<1> QED BY <1>1, <1>2, <1>4, <1>5

\* How the conversation changes in a step of the loop: it is left alone, a
\* message is added, it is flushed, or a result replaces it.
Adds(t)    == t \in Seq(Message) /\ messages' = messages \o t /\ UNCHANGED <<log, offset, marks>>
Flushes(t) == t \in Seq(Message) /\ messages' = messages \o t /\ Flush
Replaces(c) == c \in Result /\ Replace(c)

\* The steps that end a round append their messages and flush the log.
LEMMA FlushesAll ==
    ASSUME TypeOK
    PROVE  /\ OutOfSteps \/ LLMFails => Flushes(<< >>)
           /\ Text => Flushes(<<Msg("text", turn + 1, 0, 1)>>)
           /\ Nudge => Flushes(<<Msg("text", turn + 1, 0, 1), Msg("nudge", turn + 1, 0, 1)>>)
           /\ CloseRound => Flushes(<< >>) \/ Flushes(<<Msg("reflection", turn, 0, 1)>>)
<1>1. {"text", "nudge", "reflection"} \subseteq Kinds /\ messages \in Seq(Message) /\ turn \in Nat
  BY DEF Kinds, TypeOK
<1>2. messages = messages \o << >> /\ << >> \in Seq(Message)
  BY <1>1, NothingAdded
<1>3. Msg("text", turn + 1, 0, 1) \in Message /\ Msg("nudge", turn + 1, 0, 1) \in Message
  BY <1>1, MsgType
<1>4. <<Msg("text", turn + 1, 0, 1), Msg("nudge", turn + 1, 0, 1)>> \in Seq(Message)
  BY <1>3
<1>5. OutOfSteps \/ LLMFails => Flushes(<< >>)
  BY <1>2 DEF OutOfSteps, LLMFails, Flushes
<1>6. Text => Flushes(<<Msg("text", turn + 1, 0, 1)>>)
  <2>1. /\ <<Msg("text", turn + 1, 0, 1)>> \in Seq(Message)
        /\ Append(messages, Msg("text", turn + 1, 0, 1)) = messages \o <<Msg("text", turn + 1, 0, 1)>>
    BY <1>1, OneMessage
  <2> QED BY <2>1 DEF Text, Flushes
<1>7. Nudge => Flushes(<<Msg("text", turn + 1, 0, 1), Msg("nudge", turn + 1, 0, 1)>>)
  BY <1>4 DEF Nudge, Flushes
<1>8. CloseRound => Flushes(<< >>) \/ Flushes(<<Msg("reflection", turn, 0, 1)>>)
  <2>1. /\ <<Msg("reflection", turn, 0, 1)>> \in Seq(Message)
        /\ Append(messages, Msg("reflection", turn, 0, 1)) = messages \o <<Msg("reflection", turn, 0, 1)>>
    BY <1>1, OneMessage
  <2> QED BY <1>2, <2>1 DEF CloseRound, Flushes
<1> QED BY <1>5, <1>6, <1>7, <1>8

\* The steps within a round append one message and flush nothing.
LEMMA RoundAdds ==
    ASSUME TypeOK
    PROVE  /\ \A n \in 1..MaxCalls : Calls(n) => Adds(<<Msg("calls", turn + 1, n, 1)>>)
           /\ \A size \in ResultSizes, ok \in BOOLEAN :
                  ToolResult(size, ok) => Adds(<<Msg("result", turn, done + 1, size)>>)
<1>1. {"calls", "result"} \subseteq Kinds /\ messages \in Seq(Message) /\ turn \in Nat /\ done \in Nat
  BY DEF Kinds, TypeOK
<1>2. ASSUME NEW n \in 1..MaxCalls, Calls(n) PROVE Adds(<<Msg("calls", turn + 1, n, 1)>>)
  <2>1. /\ <<Msg("calls", turn + 1, n, 1)>> \in Seq(Message)
        /\ Append(messages, Msg("calls", turn + 1, n, 1)) = messages \o <<Msg("calls", turn + 1, n, 1)>>
    <3>1. "calls" \in Kinds /\ turn + 1 \in Nat /\ n \in Nat /\ 1 \in Nat
      BY <1>1
    <3> QED BY <1>1, <3>1, OneMessage
  <2> QED BY <1>2, <2>1 DEF Calls, Adds
<1>3. ASSUME NEW size \in ResultSizes, NEW ok \in BOOLEAN, ToolResult(size, ok)
      PROVE  Adds(<<Msg("result", turn, done + 1, size)>>)
  <2>1. size \in Nat /\ done + 1 \in Nat
    BY <1>1
  <2>2. /\ <<Msg("result", turn, done + 1, size)>> \in Seq(Message)
        /\ Append(messages, Msg("result", turn, done + 1, size))
               = messages \o <<Msg("result", turn, done + 1, size)>>
    <3>1. "result" \in Kinds
      BY <1>1
    <3> QED BY <1>1, <2>1, <3>1, OneMessage
  <2> QED BY <1>3, <2>2 DEF ToolResult, Adds
<1> QED BY <1>2, <1>3

\* The steps that may put a compaction in the conversation's place.
LEMMA TakesResult ==
    ASSUME TypeOK
    PROVE  /\ NextStep => Replaces(result) \/ UNCHANGED <<messages, log, offset, marks>>
           /\ Await => Replaces(result) \/ UNCHANGED <<messages, log, offset, marks>>
           /\ Compact => \/ UNCHANGED <<messages, log, offset, marks>>
                         \/ \E c \in Compactions(messages, Hard) : Replaces(c)
<1>1. result \in Result /\ messages \in Seq(Message)
  BY DEF TypeOK, Result
<1>2. \A c \in Compactions(messages, Hard) : c \in Result
  BY <1>1, CompactionsType
<1> QED BY <1>1, <1>2 DEF NextStep, Await, Compact, Take, Replaces, talk

\* The conversation and its log in any step of the loop.
LEMMA LoopTalk ==
    ASSUME TypeOK, LoopStep
    PROVE  \/ UNCHANGED <<messages, log, offset, marks>>
           \/ \E t \in Seq(Message) : Adds(t) \/ Flushes(t)
           \/ \E c \in Result : Replaces(c)
<1> DEFINE Goal == \/ UNCHANGED <<messages, log, offset, marks>>
                   \/ \E t \in Seq(Message) : Adds(t) \/ Flushes(t)
                   \/ \E c \in Result : Replaces(c)
<1>1. ASSUME OutOfSteps \/ LLMFails \/ Text \/ Nudge \/ CloseRound PROVE Goal
  BY <1>1, FlushesAll DEF Flushes
<1>2. ASSUME NEW n \in 1..MaxCalls, Calls(n) PROVE Goal
  BY <1>2, RoundAdds DEF Adds
<1>3. ASSUME NEW size \in ResultSizes, NEW ok \in BOOLEAN, ToolResult(size, ok) PROVE Goal
  BY <1>3, RoundAdds DEF Adds
<1>4. ASSUME NextStep \/ Await \/ Compact PROVE Goal
  BY <1>4, TakesResult DEF Replaces
<1>5. ASSUME Nothing \/ Check PROVE Goal
  BY <1>5 DEF Nothing, Check, talk
<1> QED BY <1>1, <1>2, <1>3, <1>4, <1>5 DEF LoopStep

\* Every step keeps the log exact.
LEMMA TalkStep ==
    ASSUME TypeOK, LogExact, Where, [Next]_vars
    PROVE  TalkOK'
<1>1. TalkOK /\ messages \in Seq(Message) /\ log \in Seq(Message)
  BY TypeOfTalk DEF TalkOK
<1>2. ASSUME log = << >>, Fresh PROVE TalkOK'
  <2>1. << >> \o Prompt = Prompt /\ SubSeq(Prompt, 1, 2) = Prompt /\ << >> \in Seq(Message)
    BY PromptType, ConcatEmptySeq, SubSeqFull
  <2> QED BY <1>2, <2>1, PromptType DEF Fresh, TalkOK, LogExact
<1>3. CASE Start
  BY <1>2, <1>3 DEF Start, Where
<1>4. CASE Repair
  <2>1. CASE log = << >> /\ Fresh
    BY <1>2, <2>1
  <2>2. CASE /\ messages' = Append(log, Msg("user", turn, 1, 1))
             /\ offset' = Len(log) /\ base' = 0 /\ UNCHANGED <<log, held>>
    <3> DEFINE t == <<Msg("user", turn, 1, 1)>>
    <3>1. t \in Seq(Message) /\ Append(log, Msg("user", turn, 1, 1)) = log \o t
      <4>1. "user" \in Kinds /\ turn \in Nat
        BY DEF Kinds, TypeOK
      <4> QED BY <1>1, <4>1, OneMessage
    <3>2. log \o t \in Seq(Message) /\ Len(log \o t) = Len(log) + Len(t) /\ Len(t) \in Nat
      BY <1>1, <3>1, Joins
    <3>3. SubSeq(log \o t, 1, Len(log)) = log
      <4>1. Len(log) \in 0..Len(log) /\ 1 \in 1..Len(log)+1
        BY <1>1
      <4>2. SubSeq(log \o t, 1, Len(log)) = SubSeq(log, 1, Len(log))
        BY <1>1, <3>1, <4>1, SubSeqOfJoined
      <4> QED BY <1>1, <4>2, SubSeqFull
    <3>4. held = << >> /\ << >> \o log = log
      BY <1>1, <1>4, ConcatEmptySeq DEF Repair, Where
    <3> HIDE DEF t
    <3> QED BY <1>1, <2>2, <3>1, <3>2, <3>3, <3>4 DEF TalkOK, LogExact
  <2> QED BY <1>4, <2>1, <2>2 DEF Repair
<1>5. CASE Abandon
  BY <1>1, <1>5, TalkUnchanged DEF Abandon, talk, marks
<1>6. CASE Expire
  <2>1. SubSeq(messages, offset + 1, offset) = << >> /\ << >> \o << >> = << >>
        /\ << >> \in Seq(Message)
    BY <1>1, SubSeqEmpty, ConcatEmptySeq DEF TalkOK
  <2> QED BY <1>1, <1>6, <2>1 DEF Expire, TalkOK, LogExact
<1>7. CASE Compacted
  BY <1>1, <1>7, TalkUnchanged DEF Compacted, talk, marks
<1>8. CASE LoopStep
  <2>1. CASE UNCHANGED <<messages, log, offset, marks>>
    BY <1>1, <2>1, TalkUnchanged DEF marks
  <2>2. ASSUME NEW t \in Seq(Message), Adds(t) \/ Flushes(t) PROVE TalkOK'
    BY <1>1, <2>2, TalkAdds, TalkFlushes DEF Adds, Flushes, marks
  <2>3. ASSUME NEW c \in Result, Replaces(c) PROVE TalkOK'
    BY <2>3, TalkReplaced DEF Replaces
  <2> QED BY <1>8, <2>1, <2>2, <2>3, LoopTalk
<1>9. CASE UNCHANGED vars
  BY <1>1, <1>9, TalkUnchanged DEF vars, talk, marks
<1>10. CASE Resume
  <2>1. PICK es \in EventsLeft \ {<< >>} :
            messages' = Rebuilt(es) /\ offset' = Len(es) /\ base' = Len(es)
    BY <1>10 DEF Resume
  <2>2. messages' \in Seq(Message) /\ Len(messages') = Len(es) /\ Len(es) \in Nat
    BY <2>1, RebuiltType
  <2>3. SubSeq(messages', Len(es) + 1, Len(es)) = << >> /\ log \o << >> = log
    BY <1>1, <2>2, SubSeqEmpty, ConcatEmptySeq
  <2> QED BY <1>1, <1>10, <2>1, <2>2, <2>3 DEF Resume, TalkOK, LogExact
<1> QED BY <1>3, <1>4, <1>5, <1>6, <1>7, <1>8, <1>9, <1>10 DEF Next

\* The types of the rest.
BackgroundOK ==
    snapshot \in Seq(Message) /\ task \in {"none", "running", "ready"} /\ result \in Result

LoopOK ==
    /\ pc \in {"idle", "step", "calling", "tools", "check", "await", "compact", "close", "over"}
    /\ step \in 0..MaxSteps /\ turn \in Nat /\ calls \in Nat /\ done \in 0..calls
    /\ bad \in BOOLEAN /\ failures \in 0..2 /\ reflections \in 0..MaxReflect
    /\ nudged \in BOOLEAN /\ outcome \in {"none", "ok", "error", "abandoned"}
    /\ attempts \in Nat /\ told \in Seq(Kinds) /\ earlier \in Seq(Kinds)
    /\ head \in Seq(Message) /\ cut \in BOOLEAN /\ expiries \in Nat

\* The type invariant and LogExact, in the parts that are proved one by one.
LEMMA TypeParts == TypeOK /\ LogExact <=> TalkOK /\ BackgroundOK /\ LoopOK
BY DEF TypeOK, TalkOK, BackgroundOK, LoopOK, Result

\* Every step keeps the types of the background compaction.
LEMMA BackgroundStep ==
    ASSUME TypeOK, LogExact, [Next]_vars
    PROVE  BackgroundOK'
<1>1. << >> \in Seq(Message) /\ NoResult \in Result
  BY DEF NoResult, Result
<1>2. messages \in Seq(Message) /\ BackgroundOK
  BY TypeParts DEF TalkOK
<1>3. CASE UNCHANGED bgVars
  BY <1>2, <1>3 DEF BackgroundOK, bgVars
<1>4. CASE NoTask
  BY <1>1, <1>4 DEF BackgroundOK, NoTask
<1>5. CASE Compacted
  <2>1. result' \in Result
    BY <1>2, <1>5, CompactionsType DEF Compacted, BackgroundOK
  <2> QED BY <1>2, <1>5, <2>1 DEF Compacted, BackgroundOK
<1>6. CASE Check
  BY <1>2, <1>6 DEF Check, BackgroundOK, bgVars
<1> QED BY <1>3, <1>4, <1>5, <1>6
        DEF Next, LoopStep, Start, Repair, Resume, Begin, Abandon, Expire, NextStep, OutOfSteps,
            LLMFails, Text, Nudge, Nothing, Calls, ToolResult, Await, Compact, CloseRound, End, vars

\* Every step keeps the flags Boolean.
LEMMA FlagStep ==
    ASSUME LoopOK, [Next]_vars
    PROVE  bad' \in BOOLEAN /\ nudged' \in BOOLEAN /\ cut' \in BOOLEAN
<1>1. bad \in BOOLEAN /\ nudged \in BOOLEAN /\ cut \in BOOLEAN
  BY DEF LoopOK
<1>2. bad' \in BOOLEAN
  <2>1. bad' = bad \/ bad' = FALSE \/ \E ok \in BOOLEAN : bad' = (bad \/ ~ok)
    BY DEF Next, LoopStep, Start, Repair, Resume, Begin, Abandon, Expire, Compacted, NextStep,
           OutOfSteps, LLMFails, Text, Nudge, Nothing, Calls, ToolResult, Check, Await, Compact,
           CloseRound, End, Cleared, round, vars
  <2> QED BY <1>1, <2>1, Zenon
<1>3. nudged' \in BOOLEAN
  <2>1. nudged' = nudged \/ nudged' = FALSE \/ nudged' = TRUE
    BY DEF Next, LoopStep, Start, Repair, Resume, Begin, Abandon, Expire, Compacted, NextStep,
           OutOfSteps, LLMFails, Text, Nudge, Nothing, Calls, ToolResult, Check, Await, Compact,
           CloseRound, End, Cleared, budget, vars
  <2> QED BY <1>1, <2>1, Zenon
<1>4. cut' \in BOOLEAN
  <2>1. \/ cut' = cut \/ cut' = FALSE \/ cut' = (cut \/ base > 0)
        \/ \E c : cut' = (cut \/ c.level = 3)
    BY DEF Next, LoopStep, Start, Repair, Resume, Fresh, Abandon, Expire, Compacted, NextStep,
           OutOfSteps, LLMFails, Text, Nudge, Nothing, Calls, ToolResult, Check, Await, Compact,
           CloseRound, Take, Replace, Flush, marks, vars
  <2> QED BY <1>1, <2>1, Zenon
<1> QED BY <1>2, <1>3, <1>4

\* Every step keeps the events' types, and what is marked of the conversation.
LEMMA EventsStep ==
    ASSUME TypeOK, [Next]_vars
    PROVE  told' \in Seq(Kinds) /\ earlier' \in Seq(Kinds) /\ head' \in Seq(Message)
<1>1. /\ told \in Seq(Kinds) /\ earlier \in Seq(Kinds) /\ head \in Seq(Message)
      /\ << >> \in Seq(Kinds)
  BY DEF TypeOK
<1>2. \A ms \in Seq(Message) : Opening(ms) \in Seq(Message)
  BY OpeningType
<1>3. told' \in Seq(Kinds)
  <2>1. \/ told' = told \/ told' = << >> \/ told' = Append(told, "text")
        \/ told' = told \o OneTool
        \/ \E k \in 1..Len(OneTool) : told' = told \o SubSeq(OneTool, 1, k)
    BY DEF Next, LoopStep, Start, Repair, Resume, Begin, Abandon, Expire, Compacted, NextStep,
           OutOfSteps, LLMFails, Text, Nudge, Nothing, Calls, ToolResult, Check, Await, Compact,
           CloseRound, events, vars
  <2>2. OneTool \in Seq(Kinds) /\ "text" \in Kinds
    BY DEF OneTool, Kinds
  <2>3. \A k \in 1..Len(OneTool) : SubSeq(OneTool, 1, k) \in Seq(Kinds)
    <3> HIDE DEF OneTool
    <3> QED BY <2>2, SubSeqProperties
  <2>4. \A t \in Seq(Kinds) : told \o t \in Seq(Kinds)
    BY <1>1, ConcatProperties
  <2>5. Append(told, "text") \in Seq(Kinds)
    BY <1>1, <2>2, AppendProperties
  <2> QED BY <1>1, <2>1, <2>2, <2>3, <2>4, <2>5
<1>4. earlier' \in Seq(Kinds)
  <2>1. earlier' = earlier \/ earlier' = told \/ \E es \in EventsLeft : earlier' = es
    BY DEF Next, LoopStep, Start, Repair, Resume, Abandon, Expire, Compacted, NextStep,
           OutOfSteps, LLMFails, Text, Nudge, Nothing, Calls, ToolResult, Check, Await, Compact,
           CloseRound, events, vars
  <2> QED BY <1>1, <2>1, RebuiltType
<1>5. head' \in Seq(Message)
  <2>1. head' = head \/ head' = Opening(Prompt) \/ \E es \in EventsLeft : head' = Opening(Rebuilt(es))
    BY DEF Next, LoopStep, Start, Repair, Resume, Fresh, Abandon, Expire, Compacted, NextStep,
           OutOfSteps, LLMFails, Text, Nudge, Nothing, Calls, ToolResult, Check, Await, Compact,
           CloseRound, Take, Replace, Flush, marks, vars
  <2> QED BY <1>1, <1>2, <2>1, RebuiltType, PromptType
<1> QED BY <1>3, <1>4, <1>5

\* Every step keeps the loop's types, and what its place says of them.
LEMMA RestStep ==
    ASSUME TypeOK, LogExact, Where, [Next]_vars
    PROVE  LoopOK' /\ Where'
<1> DEFINE Goal == LoopOK' /\ Where'
<1>0. LoopOK /\ BackgroundOK
  BY TypeParts
<1> USE <1>0 DEF LoopOK, Where, bgVars, round, budget, talk, events, marks, Cleared
<1>1. bad' \in BOOLEAN /\ nudged' \in BOOLEAN /\ cut' \in BOOLEAN
  BY FlagStep
<1>2. told' \in Seq(Kinds) /\ earlier' \in Seq(Kinds) /\ head' \in Seq(Message)
  BY EventsStep
<1>3. ASSUME Begin, pc \in {"idle", "over"}, turn' \in Nat, attempts' <= 1 => held' = << >> PROVE Goal
  <2>1. LoopOK'
    BY <1>1, <1>2, <1>3 DEF Begin
  <2>2. Where'
    BY <1>3 DEF Begin
  <2> QED BY <2>1, <2>2
<1>4. CASE Start
  BY <1>3, <1>4 DEF Start, Fresh
<1>5. CASE Repair
  <2>1. attempts = 1 /\ attempts' = attempts + 1 /\ turn' = turn
    BY <1>5, Zenon DEF Repair, Begin
  <2> QED BY <1>3, <1>5, <2>1 DEF Repair
<1>20. CASE Resume
  <2>1. turn' \in Nat
    BY <1>20, RebuiltType DEF Resume
  <2>2. attempts' = attempts + 1 /\ attempts # 0
    BY <1>20 DEF Resume, Begin
  <2> QED BY <1>3, <1>20, <2>1, <2>2 DEF Resume
<1>6. CASE Abandon
  BY <1>1, <1>2, <1>6 DEF Abandon, End, NoTask, Running
<1>7. CASE Expire
  BY <1>1, <1>2, <1>7 DEF Expire
<1>8. CASE Compacted
  BY <1>1, <1>2, <1>8 DEF Compacted
<1>9. CASE NextStep
  BY <1>1, <1>2, <1>9 DEF NextStep, Replace
<1>10. CASE OutOfSteps \/ LLMFails
  BY <1>1, <1>2, <1>10 DEF Flush, OutOfSteps, LLMFails, End, NoTask
<1>11. CASE Text
  BY <1>1, <1>2, <1>11 DEF Flush, Text, End, NoTask
<1>12. CASE Nudge \/ Nothing
  <2>1. CASE Nudge
    BY <1>1, <1>2, <2>1 DEF Flush, Nudge
  <2>2. CASE Nothing
    BY <1>1, <1>2, <2>2 DEF Nothing
  <2> QED BY <1>12, <2>1, <2>2
<1>13. ASSUME NEW n \in 1..MaxCalls, Calls(n) PROVE Goal
  BY <1>1, <1>2, <1>13 DEF Calls
<1>14. ASSUME NEW size \in ResultSizes, NEW ok \in BOOLEAN, ToolResult(size, ok) PROVE Goal
  BY <1>1, <1>2, <1>14 DEF ToolResult
<1>15. CASE Check
  BY <1>1, <1>2, <1>15 DEF Check, GoOn
<1>16. CASE Await
  BY <1>1, <1>2, <1>16 DEF Await, GoOn, Take, Replace
<1>17. CASE Compact
  BY <1>1, <1>2, <1>17 DEF Compact, GoOn, Take, Replace
<1>18. CASE CloseRound
  <2>1. failures' \in 0..2 /\ reflections' \in 0..MaxReflect
    BY <1>18 DEF CloseRound, End, Failures, Reflects
  <2> QED BY <1>1, <1>2, <1>18, <2>1 DEF Flush, CloseRound, End, NoTask
<1>19. CASE UNCHANGED vars
  BY <1>1, <1>2, <1>19 DEF vars, talk
<1> QED BY <1>4, <1>5, <1>6, <1>7, <1>8, <1>9, <1>10, <1>11, <1>12, <1>13, <1>14, <1>15,
           <1>16, <1>17, <1>18, <1>19, <1>20 DEF Next, LoopStep

-----------------------------------------------------------------------------
(* What is at risk. *)

\* An element of two joined lists is one of the first or of the second.
LEMMA LastOfJoined ==
    ASSUME NEW s \in Seq(Message), NEW t \in Seq(Message), NEW i \in 1..Len(s \o t)
    PROVE  (i \in 1..Len(s) /\ (s \o t)[i] = s[i]) \/ (\E j \in 1..Len(t) : (s \o t)[i] = t[j])
<1>1. Len(s) \in Nat /\ Len(t) \in Nat /\ Len(s \o t) = Len(s) + Len(t)
  BY Joins
<1>2. CASE i <= Len(s)
  BY <1>1, <1>2, Joins
<1>3. CASE i > Len(s)
  <2>1. PICK j \in 1..Len(t) : i = Len(s) + j
    <3>1. i - Len(s) \in 1..Len(t) /\ i = Len(s) + (i - Len(s))
      BY <1>1, <1>3
    <3> QED BY <3>1
  <2> QED BY <2>1, Joins
<1> QED BY <1>1, <1>2, <1>3

\* Every step leaves at most the current round unflushed.
LEMMA FlushedStep ==
    ASSUME TypeOK, LogExact, Flushed, [Next]_vars
    PROVE  Flushed'
<1>1. TalkOK /\ messages \in Seq(Message) /\ log \in Seq(Message) /\ turn \in Nat
  BY TypeOfTalk DEF TalkOK, TypeOK
<1>2. ASSUME offset' = Len(messages'), Len(messages') \in Nat PROVE Flushed'
  BY <1>2 DEF Flushed
<1>3. ASSUME NEW t \in Seq(Message), Flushes(t) PROVE Flushed'
  <2>1. TalkOK' /\ offset' = Len(messages')
    <3>1. messages' = messages \o t /\ Flush
      BY <1>3 DEF Flushes
    <3> QED BY <1>1, <3>1, TalkFlushes
  <2>2. Len(messages') \in Nat
    BY <2>1 DEF TalkOK
  <2> QED BY <1>2, <2>1, <2>2
<1>4. ASSUME NEW c \in Result, Replaces(c) PROVE Flushed'
  <2>1. TalkOK' /\ offset' = Len(messages')
    BY <1>4, TalkReplaced DEF Replaces
  <2>2. Len(messages') \in Nat
    BY <2>1 DEF TalkOK
  <2> QED BY <1>2, <2>1, <2>2
<1>5. ASSUME UNCHANGED <<messages, offset, turn>>, pc' \notin {"step", "calling"} \/ pc' = pc
      PROVE  Flushed'
  BY <1>5 DEF Flushed
<1>6. ASSUME UNCHANGED <<messages, offset, turn>>, pc \in {"step", "calling"}
      PROVE  Flushed'
  BY <1>6 DEF Flushed
<1>7. CASE Start
  BY <1>2, <1>7, PromptType DEF Start, Fresh
<1>8. CASE Repair
  <2>1. CASE Fresh
    BY <1>2, <2>1, PromptType DEF Fresh
  <2>2. CASE messages' = Append(log, Msg("user", turn, 1, 1)) /\ offset' = Len(log)
    <3>1. Msg("user", turn, 1, 1) \in Message /\ Msg("user", turn, 1, 1).kind = "user"
      <4>1. "user" \in Kinds /\ 1 \in Nat
        BY DEF Kinds
      <4> QED BY <1>1, <4>1, MsgType
    <3>2. Len(messages') = Len(log) + 1 /\ messages'[Len(log) + 1].kind = "user" /\ Len(log) \in Nat
      BY <1>1, <2>2, <3>1
    <3> QED BY <2>2, <3>2 DEF Flushed
  <2> QED BY <1>8, <2>1, <2>2 DEF Repair
<1>9. CASE Abandon \/ Expire \/ Compacted
  BY <1>5, <1>9 DEF Abandon, Expire, Compacted, End, talk, round
<1>18. CASE Resume
  <2>1. PICK es \in EventsLeft \ {<< >>} : messages' = Rebuilt(es) /\ offset' = Len(es)
    BY <1>18 DEF Resume
  <2>2. Len(messages') = Len(es) /\ Len(es) \in Nat
    BY <2>1, RebuiltType
  <2> QED BY <1>2, <2>1, <2>2
<1>10. CASE OutOfSteps \/ LLMFails \/ Text \/ Nudge \/ CloseRound
  BY <1>3, <1>10, FlushesAll DEF Flushes
<1>11. CASE NextStep
  BY <1>4, <1>6, <1>11, TakesResult DEF NextStep, round, Replaces
<1>12. CASE Nothing
  BY <1>6, <1>12 DEF Nothing, talk, round
<1>13. CASE Check
  BY <1>5, <1>13 DEF Check, GoOn, talk, round
<1>14. CASE Await \/ Compact
  BY <1>4, <1>5, <1>14, TakesResult DEF Await, Compact, GoOn, round, Replaces
<1>15. ASSUME NEW n \in 1..MaxCalls, Calls(n) PROVE Flushed'
  <2> DEFINE t == <<Msg("calls", turn + 1, n, 1)>>
  <2>1. Adds(t) /\ pc = "calling" /\ pc' = "tools" /\ turn' = turn + 1
    BY <1>15, RoundAdds DEF Calls
  <2>2. Len(t) = 1 /\ t[1].turn = turn + 1
    BY DEF Msg
  <2>3. ASSUME NEW i \in offset + 1 .. Len(messages') PROVE messages'[i].kind = "user" \/ messages'[i].turn = turn'
    <3> HIDE DEF t
    <3>1. messages' = messages \o t /\ t \in Seq(Message) /\ i \in 1..Len(messages') /\ i >= offset + 1
      BY <1>1, <2>1 DEF Adds, TalkOK
    <3>2. CASE i \in 1..Len(messages) /\ messages'[i] = messages[i]
      BY <1>1, <2>1, <3>1, <3>2 DEF Flushed, TalkOK
    <3>3. CASE \E j \in 1..Len(t) : messages'[i] = t[j]
      BY <2>1, <2>2, <3>3
    <3> QED BY <1>1, <3>1, <3>2, <3>3, LastOfJoined
  <2> QED BY <2>1, <2>3 DEF Flushed, Adds
<1>16. ASSUME NEW size \in ResultSizes, NEW ok \in BOOLEAN, ToolResult(size, ok) PROVE Flushed'
  <2> DEFINE t == <<Msg("result", turn, done + 1, size)>>
  <2>1. Adds(t) /\ pc' = "check" /\ turn' = turn
    BY <1>16, RoundAdds DEF ToolResult
  <2>2. Len(t) = 1 /\ t[1].turn = turn
    BY DEF Msg
  <2>3. ASSUME NEW i \in offset + 1 .. Len(messages') PROVE messages'[i].kind = "user" \/ messages'[i].turn = turn'
    <3> HIDE DEF t
    <3>1. messages' = messages \o t /\ t \in Seq(Message) /\ i \in 1..Len(messages') /\ i >= offset + 1
      BY <1>1, <2>1 DEF Adds, TalkOK
    <3>2. CASE i \in 1..Len(messages) /\ messages'[i] = messages[i]
      BY <1>1, <2>1, <3>1, <3>2 DEF Flushed, TalkOK
    <3>3. CASE \E j \in 1..Len(t) : messages'[i] = t[j]
      BY <2>1, <2>2, <3>3
    <3> QED BY <1>1, <3>1, <3>2, <3>3, LastOfJoined
  <2> QED BY <2>1, <2>3 DEF Flushed, Adds
<1>17. CASE UNCHANGED vars
  BY <1>5, <1>17 DEF vars, talk, round
<1> QED BY <1>7, <1>8, <1>9, <1>10, <1>11, <1>12, <1>13, <1>14, <1>15, <1>16, <1>17, <1>18
        DEF Next, LoopStep

-----------------------------------------------------------------------------
(* The background, and the head of the conversation. *)

\* The snapshot of a running compaction stays a prefix of the conversation.
LEMMA PrefixStep ==
    ASSUME TypeOK, LogExact, Where, SnapshotPrefix, [Next]_vars
    PROVE  SnapshotPrefix'
<1>1. messages \in Seq(Message) /\ snapshot \in Seq(Message)
  BY DEF TypeOK
<1>2. ASSUME NoTask PROVE SnapshotPrefix'
  BY <1>2 DEF NoTask, SnapshotPrefix
<1>3. ASSUME NEW t \in Seq(Message), messages' = messages \o t, UNCHANGED bgVars PROVE SnapshotPrefix'
  <2>1. CASE task = "none"
    BY <1>3, <2>1 DEF SnapshotPrefix, bgVars
  <2>2. CASE task # "none"
    BY <1>1, <1>3, <2>2, PrefixGrows DEF SnapshotPrefix, bgVars
  <2> QED BY <2>1, <2>2
<1>4. ASSUME UNCHANGED messages, UNCHANGED snapshot, task # "none" \/ UNCHANGED task
      PROVE  SnapshotPrefix'
  BY <1>4 DEF SnapshotPrefix, IsPrefix
<1>5. CASE Start \/ Repair \/ Resume
  BY <1>5 DEF Start, Repair, Resume, Begin, Where, SnapshotPrefix, bgVars
<1>6. CASE Abandon \/ OutOfSteps \/ LLMFails \/ Text \/ Await
  BY <1>2, <1>6 DEF Abandon, OutOfSteps, LLMFails, Text, Await, End
<1>7. CASE Expire \/ Compacted \/ Nothing
  BY <1>4, <1>7 DEF Expire, Compacted, Nothing, talk, bgVars
<1>8. CASE NextStep
  BY <1>2, <1>4, <1>8 DEF NextStep, bgVars, talk
<1>9. CASE Check
  <2>1. CASE UNCHANGED bgVars
    BY <1>4, <1>9, <2>1 DEF Check, talk, bgVars
  <2>2. CASE snapshot' = messages
    BY <1>1, <1>9, <2>2, PrefixOfItself DEF Check, talk, SnapshotPrefix
  <2> QED BY <1>9, <2>1, <2>2 DEF Check
<1>10. CASE Compact
  BY <1>10 DEF Compact, Where, SnapshotPrefix, bgVars
<1>11. CASE Nudge
  BY <1>3, <1>11, FlushesAll DEF Nudge, Flushes
<1>12. CASE CloseRound
  BY <1>2, <1>3, <1>12, FlushesAll DEF CloseRound, Flushes, End
<1>13. ASSUME NEW n \in 1..MaxCalls, Calls(n) PROVE SnapshotPrefix'
  BY <1>3, <1>13, RoundAdds DEF Calls, Adds
<1>14. ASSUME NEW size \in ResultSizes, NEW ok \in BOOLEAN, ToolResult(size, ok) PROVE SnapshotPrefix'
  BY <1>3, <1>14, RoundAdds DEF ToolResult, Adds
<1>15. CASE UNCHANGED vars
  BY <1>4, <1>15 DEF vars, talk, bgVars
<1> QED BY <1>5, <1>6, <1>7, <1>8, <1>9, <1>10, <1>11, <1>12, <1>13, <1>14, <1>15 DEF Next, LoopStep

\* Every step keeps the head in front.
LEMMA HeadsStep ==
    ASSUME TypeOK, LogExact, Where, HeadsKept, [Next]_vars
    PROVE  HeadsKept'
<1>1. TalkOK /\ messages \in Seq(Message) /\ snapshot \in Seq(Message) /\ log \in Seq(Message)
      /\ offset \in 0..Len(messages) /\ head \in Seq(Message) /\ Len(head) \in Nat
  BY TypeOfTalk DEF TypeOK, TalkOK
<1>2. ASSUME head' \in Seq(Message), Len(head') <= KeepFirst,
             ~cut' => IsPrefix(head', messages') /\ Len(head') <= offset',
             NoTask \/ (task = "none" /\ UNCHANGED bgVars)
      PROVE  HeadsKept'
  BY <1>2 DEF HeadsKept, NoTask, bgVars
<1>3. ASSUME NEW t \in Seq(Message), Adds(t) \/ Flushes(t), NoTask \/ UNCHANGED bgVars
      PROVE  HeadsKept'
  <2>1. offset' >= offset /\ offset' \in Int /\ offset \in Int /\ messages' = messages \o t
        /\ cut' = cut /\ head' = head
    <3>1. Len(messages \o t) = Len(messages) + Len(t) /\ Len(t) \in Nat /\ Len(messages) \in Nat
      BY <1>1, Joins
    <3>2. CASE Adds(t)
      BY <1>1, <3>2 DEF Adds, marks
    <3>3. CASE Flushes(t)
      BY <1>1, <3>1, <3>3 DEF Flushes, Flush, marks
    <3> QED BY <1>3, <3>2, <3>3
  <2>2. ~cut => IsPrefix(head, messages')
    BY <1>1, <2>1, PrefixGrows DEF HeadsKept
  <2>3. ~cut => Len(head) <= offset'
    BY <1>1, <2>1 DEF HeadsKept
  <2>4. CASE NoTask
    BY <2>1, <2>2, <2>3, <2>4 DEF HeadsKept, NoTask
  <2>5. CASE UNCHANGED bgVars
    BY <2>1, <2>2, <2>3, <2>5 DEF HeadsKept, bgVars
  <2> QED BY <1>3, <2>4, <2>5
<1>4. ASSUME NEW c \in Result, Replaces(c), ~cut /\ c.level # 3 => IsPrefix(head, c.messages),
             NoTask \/ (task = "none" /\ UNCHANGED bgVars)
      PROVE  HeadsKept'
  <2>1. /\ offset' = Len(c.messages) /\ messages' = c.messages /\ cut' = (cut \/ c.level = 3)
        /\ head' = head
    BY <1>4 DEF Replaces, Replace
  <2>2. ~cut' => IsPrefix(head', messages') /\ Len(head') <= offset'
    BY <1>4, <2>1 DEF IsPrefix
  <2> QED BY <1>2, <1>4, <2>1, <2>2 DEF HeadsKept
<1>5. ASSUME UNCHANGED <<messages, offset, head, cut>>, NoTask \/ UNCHANGED bgVars
      PROVE  HeadsKept'
  BY <1>5 DEF HeadsKept, NoTask, bgVars
<1>6. ASSUME pc \in {"idle", "over"}, Begin, NEW ms \in Seq(Message), head' = Opening(ms),
             messages' = ms, offset' = Len(ms)
      PROVE  HeadsKept'
  <2>1. /\ head' \in Seq(Message) /\ IsPrefix(head', ms)
        /\ Len(head') <= KeepFirst /\ Len(head') <= Len(ms)
    BY <1>6, OpeningType
  <2>2. task = "none" /\ UNCHANGED bgVars
    BY <1>6 DEF Begin, Where
  <2> QED BY <1>2, <1>6, <2>1, <2>2
<1>7. ASSUME pc \in {"idle", "over"}, Begin, Fresh PROVE HeadsKept'
  BY <1>6, <1>7, PromptType, OpeningType DEF Fresh
<1>21. CASE Start
  BY <1>7, <1>21 DEF Start
<1>22. CASE Resume
  <2>1. PICK es \in EventsLeft \ {<< >>} :
            messages' = Rebuilt(es) /\ offset' = Len(es) /\ head' = Opening(Rebuilt(es))
    BY <1>22 DEF Resume
  <2>2. Rebuilt(es) \in Seq(Message) /\ Len(Rebuilt(es)) = Len(es)
    BY <2>1, RebuiltType
  <2> QED BY <1>6, <1>22, <2>1, <2>2, OpeningType DEF Resume
<1>8. CASE Repair
  <2>1. CASE Fresh
    BY <1>7, <1>8, <2>1 DEF Repair
  <2>2. CASE /\ messages' = Append(log, Msg("user", turn, 1, 1))
             /\ offset' = Len(log) /\ cut' = (cut \/ base > 0) /\ head' = head
    <3> DEFINE t == <<Msg("user", turn, 1, 1)>>
    <3>1. task = "none" /\ UNCHANGED bgVars /\ held = << >>
      BY <1>8 DEF Repair, Begin, Where
    <3>2. ASSUME ~cut' PROVE IsPrefix(head, messages') /\ Len(head) <= Len(log)
      <4>1. ~cut /\ base = 0
        <5>1. base \in Nat
          BY <1>1 DEF TalkOK
        <5>2. ~cut /\ ~(base > 0)
          BY <2>2, <3>2, Zenon
        <5> QED BY <5>1, <5>2
      <4>2. IsPrefix(head, messages) /\ Len(head) <= offset
        BY <4>1 DEF HeadsKept
      <4>3. log = SubSeq(messages, 1, offset)
        <5>1. SubSeq(messages, 1, offset) \in Seq(Message)
          <6>1. \A i \in 1..offset : messages[i] \in Message
            BY <1>1
          <6> QED BY <1>1, <6>1, SubSeqProperties
        <5>2. log = << >> \o SubSeq(messages, 1, offset)
          BY <3>1, <4>1 DEF LogExact
        <5> QED BY <5>1, <5>2, ConcatEmptySeq
      <4>4. Len(log) = offset /\ \A i \in 1..offset : log[i] = messages[i]
        <5>1. \A i \in 1..offset : messages[i] \in Message
          BY <1>1
        <5> QED BY <1>1, <4>3, <5>1, SubSeqProperties
      <4>5. IsPrefix(head, log)
        <5>1. \A i \in 1..Len(head) : messages[i] = head[i]
          BY <1>1, <4>2, PrefixElements
        <5>2. Len(head) <= Len(log) /\ \A i \in 1..Len(head) : log[i] = head[i]
          BY <1>1, <4>2, <4>4, <5>1
        <5> QED BY <1>1, <5>2, PrefixElements
      <4>6. t \in Seq(Message) /\ Append(log, Msg("user", turn, 1, 1)) = log \o t
        <5>1. "user" \in Kinds /\ turn \in Nat /\ 1 \in Nat /\ log \in Seq(Message)
          BY <1>1 DEF Kinds, TypeOK
        <5>2. /\ <<Msg("user", turn, 1, 1)>> \in Seq(Message)
              /\ Append(log, Msg("user", turn, 1, 1)) = log \o <<Msg("user", turn, 1, 1)>>
          BY <5>1, OneMessage
        <5> QED BY <5>2
      <4>7. IsPrefix(head, log \o t)
        <5> HIDE DEF t
        <5> QED BY <1>1, <4>5, <4>6, PrefixGrows
      <4> QED BY <2>2, <4>2, <4>4, <4>6, <4>7
    <3> QED BY <1>1, <1>2, <2>2, <3>1, <3>2 DEF HeadsKept
  <2> QED BY <1>8, <2>1, <2>2 DEF Repair
<1>9. CASE Abandon \/ Expire \/ Nothing
  BY <1>5, <1>9 DEF Abandon, Expire, End, Nothing, talk, marks
<1>10. CASE Compacted
  <2>1. Len(head) <= KeepFirst /\ IsPrefix(head, snapshot) /\ result'.level # 3
            => IsPrefix(head, result'.messages)
    BY <1>1, <1>10, CompactionsType DEF Compacted
  <2> QED BY <1>10, <2>1 DEF Compacted, HeadsKept, talk, marks
<1>11. CASE OutOfSteps \/ LLMFails \/ Text
  BY <1>3, <1>11, FlushesAll DEF OutOfSteps, LLMFails, Text, End, Flushes
<1>12. CASE Nudge
  BY <1>3, <1>12, FlushesAll DEF Nudge, Flushes
<1>13. CASE CloseRound
  BY <1>3, <1>13, FlushesAll DEF CloseRound, Flushes, End
<1>14. ASSUME NEW n \in 1..MaxCalls, Calls(n) PROVE HeadsKept'
  BY <1>3, <1>14, RoundAdds DEF Calls, Adds
<1>15. ASSUME NEW size \in ResultSizes, NEW ok \in BOOLEAN, ToolResult(size, ok) PROVE HeadsKept'
  BY <1>3, <1>15, RoundAdds DEF ToolResult, Adds
<1>16. CASE Check
  <2>1. CASE UNCHANGED bgVars
    BY <1>5, <1>16, <2>1 DEF Check, talk, marks
  <2>2. CASE task' = "running" /\ snapshot' = messages
    BY <1>16, <2>2 DEF Check, talk, marks, HeadsKept
  <2> QED BY <1>16, <2>1, <2>2 DEF Check
<1>17. CASE NextStep
  <2>1. CASE task = "ready" /\ Swappable
    <3>1. PICK c \in Result : c = result
      BY DEF TypeOK, Result
    <3>2. Replaces(c) /\ NoTask
      BY <1>17, <2>1, <3>1 DEF NextStep, Replaces, Replace
    <3>3. ~cut /\ c.level # 3 => IsPrefix(head, c.messages)
      BY <2>1, <3>1 DEF HeadsKept, Swappable
    <3> QED BY <1>4, <3>1, <3>2, <3>3
  <2>2. CASE ~(task = "ready" /\ Swappable)
    BY <1>5, <1>17, <2>2 DEF NextStep, talk, marks
  <2> QED BY <2>1, <2>2
<1>18. CASE Await
  <2>1. CASE result.compacted
    <3>1. PICK c \in Result : c = result
      BY DEF TypeOK, Result
    <3>2. Replaces(c) /\ NoTask
      BY <1>18, <2>1, <3>1 DEF Await, Take, Replaces, Replace
    <3>3. ~cut /\ c.level # 3 => IsPrefix(head, c.messages)
      BY <1>18, <2>1, <3>1 DEF HeadsKept, Await
    <3> QED BY <1>4, <3>1, <3>2, <3>3
  <2>2. CASE ~result.compacted
    BY <1>5, <1>18, <2>2 DEF Await, Take, talk, marks
  <2> QED BY <2>1, <2>2
<1>19. CASE Compact
  <2>1. PICK c \in Compactions(messages, Hard) : Take(c)
    BY <1>19 DEF Compact
  <2>2. c \in Result /\ (IsPrefix(head, messages) /\ c.level # 3 => IsPrefix(head, c.messages))
    BY <1>1, CompactionsType DEF HeadsKept
  <2>3. CASE c.compacted
    BY <1>4, <1>19, <2>1, <2>2, <2>3 DEF Compact, Take, Replaces, HeadsKept, Where
  <2>4. CASE ~c.compacted
    BY <1>5, <1>19, <2>1, <2>4 DEF Compact, Take, talk, marks
  <2> QED BY <2>3, <2>4
<1>20. CASE UNCHANGED vars
  BY <1>5, <1>20 DEF vars, talk, bgVars, marks
<1> QED BY <1>8, <1>9, <1>10, <1>11, <1>12, <1>13, <1>14, <1>15, <1>16, <1>17, <1>18, <1>19,
           <1>20, <1>21, <1>22 DEF Next, LoopStep

-----------------------------------------------------------------------------
(* The theorems. *)

IInv == TypeOK /\ Where /\ LogExact /\ Flushed /\ SnapshotPrefix /\ HeadsKept

\* The inductive invariant holds at first.
LEMMA Initially == Init => IInv
<1> SUFFICES ASSUME Init PROVE IInv
  OBVIOUS
<1>1. << >> \in Seq(Message) /\ NoResult \in Result
  BY DEF NoResult, Result
<1>2. SubSeq(<< >>, 1, 0) = << >> /\ 1 > 0
  BY SubSeqEmpty
<1>3. TypeOK
  <2>1. TalkOK
    BY <1>1, <1>2 DEF Init, TalkOK, LogExact
  <2>2. BackgroundOK
    BY <1>1 DEF Init, BackgroundOK
  <2>3. LoopOK
    <3>1. bad \in BOOLEAN /\ nudged \in BOOLEAN /\ cut \in BOOLEAN
      BY Zenon DEF Init
    <3> QED BY <3>1 DEF Init, LoopOK
  <2> QED BY <2>1, <2>2, <2>3, TypeParts
<1>4. LogExact
  BY <1>2 DEF Init, LogExact
<1>5. IsPrefix(<< >>, << >>) /\ Len(<< >>) = 0
  BY <1>1, PrefixOfItself
<1> QED BY <1>1, <1>3, <1>4, <1>5 DEF Init, IInv, Where, Flushed, SnapshotPrefix, HeadsKept

\* Every step keeps it.
LEMMA Inductive == IInv /\ [Next]_vars => IInv'
<1> SUFFICES ASSUME IInv, [Next]_vars PROVE IInv'
  OBVIOUS
<1>1. TypeOK /\ Where /\ LogExact /\ Flushed /\ SnapshotPrefix /\ HeadsKept
  BY DEF IInv
<1>2. TalkOK' /\ BackgroundOK' /\ LoopOK' /\ Where'
  BY <1>1, TalkStep, BackgroundStep, RestStep
<1>3. TypeOK' /\ LogExact'
  BY <1>2 DEF TypeOK, TalkOK, BackgroundOK, LoopOK, Result
<1>4. Flushed' /\ SnapshotPrefix' /\ HeadsKept'
  BY <1>1, FlushedStep, PrefixStep, HeadsStep
<1> QED BY <1>2, <1>3, <1>4 DEF IInv

\* So it holds in every reachable state.
LEMMA Always == Spec => []IInv
BY Initially, Inductive, PTL DEF Spec

\* Every variable of the loop, the compaction and the log has its type.
THEOREM TypeCorrect == Spec => []TypeOK
<1>1. IInv => TypeOK
  BY DEF IInv
<1> QED BY Always, <1>1, PTL

\* The log is what it held before a resume and the conversation up to the
\* offset, whatever was compacted in between and however often the entry
\* expired or the run was resumed (_aflush_step, Replace, Resume).
THEOREM LogIsTheConversation == Spec => []LogExact
<1>1. IInv => LogExact
  BY DEF IInv
<1> QED BY Always, <1>1, PTL

\* A crash costs at most the round in progress and the request of a repair.
THEOREM OneRoundIsAtRisk == Spec => []OneRoundAtRisk
<1>1. IInv => OneRoundAtRisk
  BY DEF IInv, Flushed, OneRoundAtRisk
<1> QED BY Always, <1>1, PTL

\* The background compacts a beginning of the present conversation.
THEOREM SnapshotIsPrefix == Spec => []SnapshotPrefix
<1>1. IInv => SnapshotPrefix
  BY DEF IInv
<1> QED BY Always, <1>1, PTL

\* What an attempt began with stays in front, for any keep_first_n.
THEOREM HeadStays == Spec => []HeadKept
<1>1. IInv => HeadKept
  BY DEF IInv, HeadsKept, HeadKept
<1> QED BY Always, <1>1, PTL
=============================================================================
