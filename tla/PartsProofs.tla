---------------------------- MODULE PartsProofs ----------------------------
(***************************************************************************)
(* Proofs about the parts that share no state: the classify stage, the     *)
(* facts and the money of a document, the advice on a review, and the      *)
(* questions asked about documents, for any values of the constants; and,  *)
(* on the proofs about its rules, the whole of them together.              *)
(***************************************************************************)
EXTENDS MCParts, LoopProofs, RuleProofs
LOCAL INSTANCE SequencesExt
LOCAL INSTANCE FiniteSetsExt

(***************************************************************************)
(* Chat: a question and its answer (rag/handler.py)                        *)
(***************************************************************************)

(* The documents a question is answered from were readable when it was     *)
(* asked; the hits, the context and what is cited are of those; and once   *)
(* the titles were read, the context is of the documents that had one.     *)
ScopeKept ==
    /\ scope \subseteq readable
    /\ \A r \in search.hits : r.doc \in scope
    /\ \A b \in context : b.doc \in scope
    /\ reply.cites \subseteq context
    /\ side.titles \cap gone = {}
    /\ side.titles # {} => \A b \in context : b.doc \in side.titles

(* Nothing happens before the question; the context comes after the titles *)
(* were read; the state of the search says what the channels did.          *)
StepsKept ==
    /\ asked = Unasked => search = Unsearched /\ side = NotRead /\ context = {}
    /\ ~side.read => side = NotRead /\ context = {}
    /\ search # Unsearched => search.state = StateOf(search.said)

(* With what they say of citations, of figures and of the channels.        *)
ChatInv == ScopeKept /\ StepsKept /\ CitationsStand /\ FiguresStand /\ SearchNotConfused

(* An answer without more to it is of its kind and cites nothing.          *)
LEMMA Replies ==
    /\ NoReply.kind = "none" /\ NoReply.cites = {}
    /\ \A what : Reply(what).kind = what /\ Reply(what).cites = {}
    /\ \A what, D : [Reply(what) EXCEPT !.cites = D].kind = what /\ [Reply(what) EXCEPT !.cites = D].cites = D
BY DEF Reply, NoReply

(* And a checked one has what was checked.                                 *)
LEMMA CheckedReply ==
    ASSUME NEW cited, NEW facts
    PROVE  LET used == Cleaned(cited) \cap NumbersOf(context)
           IN  /\ Checked(cited, facts).kind = "answer" /\ Checked(cited, facts).cites = context
               /\ Checked(cited, facts).used = used /\ (Checked(cited, facts).grounded <=> used # {})
               /\ Checked(cited, facts).stated = facts /\ Checked(cited, facts).cited = Cleaned(cited)
               /\ Checked(cited, facts).unverified = facts \ Sources(used)
BY DEF Checked

(* Nothing has been asked at first.                                        *)
LEMMA ChatStarts == ChatInit => ChatInv
BY DEF ChatInit, ChatInv, ScopeKept, StepsKept, CitationsStand, FiguresStand, SearchNotConfused,
       Unasked, NotRead, Unsearched, NoReply

(* A question is only about documents that could be read.                  *)
LEMMA ScopeReadable ==
    ASSUME NEW by \in ChatDocs \cup {"project", "everything"}
    PROVE  ScopeFor(by) \subseteq {d \in ChatDocs : MayRead(d)} \cup InProject
BY ChatAssumption DEF ScopeFor, MayRead, InProject

(* A question keeps the invariant,                                         *)
LEMMA AskKeepsChat ==
    ASSUME ChatInv, NEW by \in ChatDocs \cup {"project", "everything"}, NEW said, Ask(by, said)
    PROVE  ChatInv'
<1>1. /\ UNCHANGED <<side, search, context, gone>>
      /\ side = NotRead /\ search = Unsearched /\ context = {}
      /\ reply' \in {Reply("nothing"), NoReply}
      /\ scope' = ScopeFor(by)
      /\ readable' = {d \in ChatDocs : MayRead(d)} \cup InProject
  BY DEF Ask, ChatInv, StepsKept
<1>2. ScopeKept'
  BY <1>1, ScopeReadable DEF ScopeKept, NotRead, Unsearched, Reply, NoReply
<1>3. StepsKept'
  BY <1>1 DEF StepsKept, NotRead
<1>4. (CitationsStand /\ FiguresStand /\ SearchNotConfused)'
  BY <1>1 DEF CitationsStand, FiguresStand, SearchNotConfused, Reply, NoReply
<1> QED BY <1>2, <1>3, <1>4 DEF ChatInv

(* While the answer is awaited nothing is said of it yet.                  *)
LEMMA NothingSaid ==
    ASSUME reply = NoReply
    PROVE  CitationsStand /\ FiguresStand /\ SearchNotConfused /\ reply.cites = {}
BY DEF CitationsStand, FiguresStand, SearchNotConfused, NoReply

(* so does the search of its channels,                                     *)
LEMMA SearchKeepsChat ==
    ASSUME ChatInv, SearchClauses
    PROVE  ChatInv'
<1>1. PICK embedded \in BOOLEAN, knn \in Outcomes, bm25 \in Outcomes, hits \in SUBSET InScope :
         LET outcomes == {bm25} \cup (IF embedded THEN {knn} ELSE {})
         IN  /\ search' = [state |-> StateOf(outcomes), hits |-> hits, said |-> outcomes]
             /\ IF asked.by = "everything" /\ search'.state = "down"
                THEN reply' = Reply("search_down")
                ELSE UNCHANGED reply
  BY DEF SearchClauses
<1> DEFINE outcomes == {bm25} \cup (IF embedded THEN {knn} ELSE {})
<1>2. /\ search' = [state |-> StateOf(outcomes), hits |-> hits, said |-> outcomes]
      /\ IF asked.by = "everything" /\ search'.state = "down" THEN reply' = Reply("search_down") ELSE UNCHANGED reply
  BY <1>1
<1> HIDE DEF outcomes
<1>3. /\ Answering /\ reply = NoReply
      /\ UNCHANGED <<filed, listed, member, records, meanwhile, asked, scope, side, context, readable, gone>>
  BY DEF SearchClauses, Answering
<1>4. search'.hits = hits /\ search'.said = outcomes /\ search'.state = StateOf(outcomes)
  BY <1>2
<1>5. reply' = NoReply \/ (reply' = Reply("search_down") /\ StateOf(outcomes) = "down")
  BY <1>2, <1>3, <1>4
<1>6. reply'.cites = {}
  BY <1>5 DEF Reply, NoReply
<1>7. ScopeKept'
  BY <1>3, <1>4, <1>6 DEF ScopeKept, ChatInv, InScope
<1>8. StepsKept'
  BY <1>3, <1>4 DEF StepsKept, ChatInv, Answering
<1>9. StateOf(outcomes) = "down" => "ok" \notin outcomes
  BY DEF StateOf
<1>10. (CitationsStand /\ FiguresStand /\ SearchNotConfused)'
  BY <1>4, <1>5, <1>9 DEF CitationsStand, FiguresStand, SearchNotConfused, Reply, NoReply
<1> QED BY <1>7, <1>8, <1>10 DEF ChatInv

(* what is read beside it,                                                 *)
LEMMA BesideKeepsChat ==
    ASSUME ChatInv, ReadBeside
    PROVE  ChatInv'
<1>1. /\ Answering /\ ~side.read /\ reply = NoReply
      /\ UNCHANGED <<asked, scope, search, context, reply, readable>>
  BY DEF ReadBeside, Answering
<1>2. /\ side'.read
      /\ \/ side'.titles = {} /\ UNCHANGED gone
         \/ side'.titles = scope \cap filed /\ gone' = scope \ filed
  BY DEF ReadBeside, NotRead
<1>3. side = NotRead /\ context = {}
  BY <1>1 DEF ChatInv, StepsKept
<1>4. ScopeKept'
  BY <1>1, <1>2, <1>3 DEF ScopeKept, ChatInv
<1>5. StepsKept'
  BY <1>1, <1>2, <1>3 DEF StepsKept, ChatInv, Answering
<1>6. (CitationsStand /\ FiguresStand /\ SearchNotConfused)'
  BY <1>1 DEF CitationsStand, FiguresStand, SearchNotConfused, NoReply
<1> QED BY <1>4, <1>5, <1>6 DEF ChatInv

(* the context that is made of both,                                       *)
LEMMA AssembleKeepsChat ==
    ASSUME ChatInv, Assemble
    PROVE  ChatInv'
<1> DEFINE hits == Kept(search.hits)
           streamed == [Reply("streamed") EXCEPT !.cites = context']
<1>1. /\ Answering /\ side.read /\ search # Unsearched /\ context = {} /\ reply = NoReply
      /\ UNCHANGED <<asked, scope, side, search, readable, gone>>
  BY DEF Assemble, Answering
<1>2. \/ search.state = "down" /\ reply' = Reply("search_down") /\ context' = context
      \/ search.state = "missing" /\ reply' = Reply("unindexed") /\ context' = context
      \/ search.state \notin {"down", "missing"} /\ reply' = Reply("nothing") /\ context' = context
      \/ context' \subseteq ClauseBlocks(hits) /\ (reply' = streamed \/ reply' = reply)
  BY DEF Assemble
<1>3. \A b \in ClauseBlocks(hits) : b.doc \in scope /\ (side.titles # {} => b.doc \in side.titles)
  BY DEF ClauseBlocks, Kept
<1>4. streamed.cites = context' /\ streamed.kind = "streamed"
  BY DEF Reply, NoReply
<1> HIDE DEF hits, streamed
<1>5. search.state = StateOf(search.said)
  BY <1>1 DEF ChatInv, StepsKept
<1>6. /\ search.state = "down" => "ok" \notin search.said
      /\ search.state = "missing" => search.said = {"missing"}
      /\ search.state \notin {"down", "missing"} => "ok" \in search.said
  BY <1>5 DEF StateOf
<1>7. /\ reply'.cites \subseteq context' /\ context' \subseteq ClauseBlocks(hits)
      /\ (CitationsStand /\ FiguresStand /\ SearchNotConfused)'
  <2>1. CASE search.state = "down" /\ reply' = Reply("search_down") /\ context' = context
    <3>1. reply'.kind = "search_down" /\ reply'.cites = {}
      BY <2>1, Replies
    <3> QED BY <1>1, <1>6, <2>1, <3>1 DEF CitationsStand, FiguresStand, SearchNotConfused
  <2>2. CASE search.state = "missing" /\ reply' = Reply("unindexed") /\ context' = context
    <3>1. reply'.kind = "unindexed" /\ reply'.cites = {}
      BY <2>2, Replies
    <3> QED BY <1>1, <1>6, <2>2, <3>1 DEF CitationsStand, FiguresStand, SearchNotConfused
  <2>3. CASE search.state \notin {"down", "missing"} /\ reply' = Reply("nothing") /\ context' = context
    <3>1. reply'.kind = "nothing" /\ reply'.cites = {}
      BY <2>3, Replies
    <3> QED BY <1>1, <1>6, <2>3, <3>1 DEF CitationsStand, FiguresStand, SearchNotConfused
  <2>4. CASE context' \subseteq ClauseBlocks(hits) /\ (reply' = streamed \/ reply' = reply)
    <3>1. reply'.kind \in {"streamed", "none"} /\ reply'.cites \subseteq context'
      BY <1>1, <1>4, <2>4, Replies
    <3> QED BY <2>4, <3>1 DEF CitationsStand, FiguresStand, SearchNotConfused
  <2> QED BY <1>2, <2>1, <2>2, <2>3, <2>4
<1>8. ScopeKept'
  BY <1>1, <1>3, <1>7 DEF ScopeKept, ChatInv
<1>9. StepsKept'
  BY <1>1 DEF StepsKept, ChatInv, Answering
<1> QED BY <1>7, <1>8, <1>9 DEF ChatInv

(* and the answer.                                                         *)
LEMMA AnswerKeepsChat ==
    ASSUME ChatInv, Answer
    PROVE  ChatInv'
<1> DEFINE empty == [Reply("empty") EXCEPT !.cites = context]
<1>1. /\ Answering /\ reply = NoReply
      /\ UNCHANGED <<asked, scope, side, search, context, readable, gone>>
  BY DEF Answer, Prompted, Answering
<1>2. \/ reply' = Reply("model_down")
      \/ reply' = empty
      \/ \E cited, facts : reply' = Checked(cited, facts)
  BY DEF Answer
<1>3. empty.cites = context /\ empty.kind = "empty"
  BY DEF Reply, NoReply
<1> HIDE DEF empty
<1>4. ASSUME reply'.cites \subseteq context
      PROVE  ScopeKept' /\ StepsKept'
  BY <1>1, <1>4 DEF ScopeKept, StepsKept, ChatInv
<1>5. CASE reply' = Reply("model_down") \/ reply' = empty
  <2>1. reply'.kind \in {"model_down", "empty"} /\ reply'.cites \subseteq context
    BY <1>3, <1>5, Replies
  <2> QED BY <1>4, <2>1 DEF ChatInv, CitationsStand, FiguresStand, SearchNotConfused
<1>6. ASSUME NEW cited, NEW facts, reply' = Checked(cited, facts)
      PROVE  ChatInv'
  <2> DEFINE used == Cleaned(cited) \cap NumbersOf(context)
  <2>1. /\ reply'.kind = "answer" /\ reply'.cites = context
        /\ reply'.used = used /\ (reply'.grounded <=> used # {})
        /\ reply'.stated = facts /\ reply'.cited = Cleaned(cited)
        /\ reply'.unverified = facts \ Sources(used)
    BY <1>6, CheckedReply
  <2>2. InReview' = InReview
    BY <1>1 DEF InReview
  <2>3. CitationsStand'
    BY <1>1, <2>1, <2>2 DEF CitationsStand, Cleaned, NumbersOf
  <2>4. ASSUME NEW f \in facts \ (facts \ Sources(used)), f \notin InReview.facts \cup asked.said
        PROVE  \E b \in context : f \in b.facts /\ (used # {} => b.number \in used)
    <3> HIDE DEF used
    <3> QED BY <2>4 DEF Sources
  <2>5. FiguresStand'
    <3> HIDE DEF used
    <3> QED BY <1>1, <2>1, <2>2, <2>4 DEF FiguresStand
  <2>6. SearchNotConfused'
    BY <2>1 DEF SearchNotConfused
  <2> QED BY <1>4, <2>1, <2>3, <2>5, <2>6 DEF ChatInv
<1> QED BY <1>2, <1>5, <1>6

(* What is deleted, analysed or withdrawn meanwhile changes nothing of the *)
(* question that is being answered.                                        *)
LEMMA OthersKeepChat ==
    ASSUME ChatInv, Others
    PROVE  ChatInv'
<1>1. UNCHANGED <<asked, scope, side, search, context, reply, readable, gone>>
  BY DEF Others
<1>2. InReview' = InReview
  BY <1>1 DEF InReview
<1>3. ScopeKept' /\ StepsKept'
  BY <1>1 DEF ScopeKept, StepsKept, ChatInv
<1>4. CitationsStand' /\ FiguresStand' /\ SearchNotConfused'
  BY <1>1, <1>2 DEF CitationsStand, FiguresStand, SearchNotConfused, ChatInv, NumbersOf
<1> QED BY <1>3, <1>4 DEF ChatInv

(* Every step of a conversation keeps the invariant.                       *)
LEMMA ChatStep == ChatInv /\ [ChatNext]_chatVars => ChatInv'
<1> SUFFICES ASSUME ChatInv, [ChatNext]_chatVars PROVE ChatInv'
  OBVIOUS
<1>1. CASE \E by \in ChatDocs \cup {"project", "everything"}, said \in Said : Ask(by, said)
  BY <1>1, AskKeepsChat
<1>2. CASE SearchClauses \/ ReadBeside \/ Assemble \/ Answer
  BY <1>2, SearchKeepsChat, BesideKeepsChat, AssembleKeepsChat, AnswerKeepsChat
<1>3. CASE \/ \E d \in ChatDocs : Vanish(d) \/ Unindex(d) \/ Unlist(d)
           \/ \E d \in ChatDocs, n \in Numbers : Index(d, n) \/ DropStale(d, n)
           \/ Leave
  BY <1>3, OthersKeepChat DEF Vanish, Unindex, Unlist, Index, DropStale, Leave
<1>4. CASE UNCHANGED chatVars
  BY <1>4, OthersKeepChat DEF chatVars, Others
<1> QED BY <1>1, <1>2, <1>3, <1>4 DEF ChatNext

(* Everything that is told of a document was readable, and the rest.       *)
LEMMA ChatGives == ChatInv => ChatHolds
BY DEF ChatInv, ScopeKept, ChatHolds, OnlyReadable, OnlyThere

(***************************************************************************)
(* Answer stream: what is shown while it is said                           *)
(***************************************************************************)

(* What is shown of an answer.                                             *)
Out == Symbols \cup {"value"}

(* A placeholder of text ends at n.                                        *)
EndsAt(text, n) == n >= 3 /\ SubSeq(text, n - 2, n) = Placeholder

(* The text restored up to n, from what was restored up to n - 1.          *)
RestoredNext(text, n, v) ==
    IF EndsAt(text, n) THEN Append(SubSeq(v, 1, Len(v) - 2), "value") ELSE Append(v, text[n])

(* What is restored of the text up to each of its symbols.                 *)
RestoredSteps(text, F) ==
    /\ F \in [0 .. Len(text) -> Seq(Out)]
    /\ F[0] = <<>>
    /\ \A n \in 1 .. Len(text) : F[n] = RestoredNext(text, n, F[n - 1])

(* What is restored of a text is the last of such steps.                   *)
LEMMA RestoredIs ==
    ASSUME NEW text \in Seq(Symbols)
    PROVE  \E F : RestoredSteps(text, F) /\ Restored(text) = F[Len(text)]
<1> DEFINE V == Seq(Out)
           none == <<>>
           K == Len(text)
           more(n, v) == IF n >= 3 /\ SubSeq(text, n - 2, n) = Placeholder
                         THEN Append(SubSeq(v, 1, Len(v) - 2), "value")
                         ELSE Append(v, text[n])
           step == [p \in (1 .. K) \X V |-> more(p[1], p[2])]
<1>1. K \in Nat /\ none \in V
  OBVIOUS
<1>2. \A n \in 1 .. K, v \in V : more(n, v) \in V
  <2> TAKE n \in 1 .. K, v \in V
  <2>1. text[n] \in Out /\ "value" \in Out
    BY DEF Out
  <2>2. SubSeq(v, 1, Len(v) - 2) \in Seq(Out)
    <3>1. Len(v) \in Nat /\ \A i \in 1 .. Len(v) : v[i] \in Out
      OBVIOUS
    <3> HIDE DEF Out
    <3> QED BY <3>1
  <2>3. Append(SubSeq(v, 1, Len(v) - 2), "value") \in Seq(Out)
    BY <2>1, <2>2
  <2>4. Append(v, text[n]) \in Seq(Out)
    BY <2>1
  <2> QED BY <2>3, <2>4
<1> HIDE DEF V, none, K, more
<1>3. step \in Steps(V, K) /\ \A n \in 1 .. K, v \in V : step[<<n, v>>] = more(n, v)
  BY <1>2 DEF Steps
<1> HIDE DEF step
<1>4. PICK f \in Runs(V, K) : Unfolds(f, K, none, step)
  BY <1>1, <1>3, Recursion
<1>5. f \in [0 .. K -> V] /\ f[0] = none /\ \A n \in 1 .. K : f[n] = step[<<n, f[n - 1]>>]
  BY <1>4 DEF Runs, Unfolds
<1>6. ASSUME NEW n \in 0 .. K PROVE f[n] = IF n = 0 THEN none ELSE more(n, f[n - 1])
  <2>1. CASE n = 0
    BY <1>5, <2>1
  <2>2. CASE n # 0
    <3>1. n \in 1 .. K /\ n - 1 \in 0 .. K
      BY <1>1, <2>2
    <3> QED BY <1>3, <1>5, <2>2, <3>1
  <2> QED BY <2>1, <2>2
<1>7. f = [n \in 0 .. K |-> IF n = 0 THEN none ELSE more(n, f[n - 1])]
  BY <1>5, <1>6
<1> DEFINE F == CHOOSE g : g = [n \in 0 .. K |-> IF n = 0 THEN none ELSE more(n, g[n - 1])]
<1>8. F = [n \in 0 .. K |-> IF n = 0 THEN none ELSE more(n, F[n - 1])]
  BY <1>7
<1>9. Restored(text) = F[K]
  BY DEF Restored, none, more, K
<1> HIDE DEF F
<1>10. F[0] = none /\ \A n \in 1 .. K : F[n] = more(n, F[n - 1])
  BY <1>1, <1>8
<1>11. F \in [0 .. K -> V]
  <2>1. \A m \in 0 .. K : F[m] \in V
    <3> DEFINE T == {m \in Nat : m <= K => F[m] \in V}
    <3>1. 0 \in T
      BY <1>1, <1>10
    <3>2. ASSUME NEW m \in Nat, m \in T PROVE m + 1 \in T
      <4> SUFFICES ASSUME m + 1 <= K PROVE F[m + 1] \in V
        OBVIOUS
      <4>1. m + 1 \in 1 .. K /\ (m + 1) - 1 = m /\ m <= K
        BY <1>1
      <4>2. F[m] \in V
        BY <3>2, <4>1
      <4> QED BY <1>2, <1>10, <4>1, <4>2
    <3> HIDE DEF T
    <3>3. \A m \in Nat : m \in T
      BY <3>1, <3>2, Counting
    <3> QED BY <1>1, <3>3 DEF T
  <2> QED BY <1>8, <2>1
<1> QED BY <1>9, <1>10, <1>11 DEF RestoredSteps, RestoredNext, EndsAt, V, none, K, more

(* A text restored up to n is what its beginning up to n becomes.          *)
LEMMA BeginningsAgree ==
    ASSUME NEW text \in Seq(Symbols), NEW F, RestoredSteps(text, F), NEW c \in 0 .. Len(text)
    PROVE  Restored(SubSeq(text, 1, c)) = F[c]
<1> DEFINE pre == SubSeq(text, 1, c)
<1>1. Len(text) \in Nat
  OBVIOUS
<1>2. pre \in Seq(Symbols) /\ Len(pre) = c /\ \A n \in 1 .. c : pre[n] = text[n]
  <2> HIDE DEF Symbols
  <2>1. \A n \in 1 .. c : text[n] \in Symbols
    OBVIOUS
  <2> QED BY <2>1
<1>3. \A n \in 1 .. c : n >= 3 => SubSeq(pre, n - 2, n) = SubSeq(text, n - 2, n)
  <2> SUFFICES ASSUME NEW n \in 1 .. c, n >= 3 PROVE SubSeq(pre, n - 2, n) = SubSeq(text, n - 2, n)
    OBVIOUS
  <2> QED BY <1>1, <1>2
<1> HIDE DEF pre
<1>4. PICK G : RestoredSteps(pre, G) /\ Restored(pre) = G[Len(pre)]
  BY <1>2, RestoredIs
<1> DEFINE T == {n \in Nat : n <= c => G[n] = F[n]}
<1>5. 0 \in T
  BY <1>4 DEF RestoredSteps
<1>6. ASSUME NEW n \in Nat, n \in T PROVE n + 1 \in T
  <2> SUFFICES ASSUME n + 1 <= c PROVE G[n + 1] = F[n + 1]
    OBVIOUS
  <2>1. n + 1 \in 1 .. c /\ (n + 1) - 1 = n /\ n <= c /\ n + 1 \in 1 .. Len(text) /\ n + 1 \in 1 .. Len(pre)
    BY <1>1, <1>2
  <2>2. G[n] = F[n]
    BY <1>6, <2>1
  <2>3. EndsAt(pre, n + 1) <=> EndsAt(text, n + 1)
    BY <1>3, <2>1 DEF EndsAt
  <2>4. G[n + 1] = RestoredNext(pre, n + 1, G[n]) /\ F[n + 1] = RestoredNext(text, n + 1, F[n])
    BY <1>4, <2>1 DEF RestoredSteps
  <2> QED BY <1>2, <2>1, <2>2, <2>3, <2>4 DEF RestoredNext
<1> HIDE DEF T
<1>7. \A n \in Nat : n \in T
  BY <1>5, <1>6, Counting
<1>8. c \in Nat /\ G[c] = F[c]
  BY <1>1, <1>7 DEF T
<1> QED BY <1>2, <1>4, <1>8 DEF pre

(* No placeholder can lie across c, whatever comes after the text.         *)
SafeAt(text, c) ==
    \A k \in 1 .. c : k > c - 2 =>
        \/ text[k] # "["
        \/ k + 1 \in 1 .. Len(text) /\ text[k + 1] # "name"
        \/ k + 2 \in 1 .. Len(text) /\ text[k + 2] # "]"

(* What the cut leaves is safe.                                            *)
LEMMA CutIsSafe ==
    ASSUME NEW text \in Seq(Symbols)
    PROVE  SafeCut(text) \in 0 .. Len(text) /\ SafeAt(text, SafeCut(text))
<1> DEFINE opens == {i \in 1 .. Len(text) : text[i] = "["}
           last == CHOOSE i \in opens : \A j \in opens : j <= i
<1>0. Len(text) \in Nat /\ DOMAIN text = 1 .. Len(text)
  OBVIOUS
<1>1. SafeCut(text) = IF opens # {} /\ \A j \in 1 .. Len(text) : j > last => text[j] # "]" THEN last - 1 ELSE Len(text)
  BY <1>0 DEF SafeCut
<1>2. opens # {} => last \in opens /\ \A j \in opens : j <= last
  <2>1. opens # {} => \E i \in opens : \A j \in opens : j <= i
    <3>1. opens \subseteq 0 .. Len(text)
      OBVIOUS
    <3> HIDE DEF opens
    <3> QED BY <1>0, <3>1, GreatestNumber
  <2> HIDE DEF opens
  <2> QED BY <2>1
<1>3. \A i \in opens : i \in 1 .. Len(text) /\ text[i] = "["
  OBVIOUS
<1>4. \A i \in 1 .. Len(text) : text[i] = "[" => i \in opens
  OBVIOUS
<1> HIDE DEF opens, last
<1>5. CASE opens # {} /\ \A j \in 1 .. Len(text) : j > last => text[j] # "]"
  <2>1. SafeCut(text) = last - 1 /\ last \in 1 .. Len(text) /\ text[last] = "["
    BY <1>1, <1>2, <1>3, <1>5
  <2>2. ASSUME NEW k \in 1 .. (last - 1), k > (last - 1) - 2, text[k] = "["
        PROVE  \/ k + 1 \in 1 .. Len(text) /\ text[k + 1] # "name"
               \/ k + 2 \in 1 .. Len(text) /\ text[k + 2] # "]"
    <3>1. last \in Nat /\ (k + 1 = last \/ k + 2 = last)
      BY <1>0, <2>1, <2>2
    <3> QED BY <2>1, <3>1
  <2> QED BY <1>0, <2>1, <2>2 DEF SafeAt
<1>6. CASE ~(opens # {} /\ \A j \in 1 .. Len(text) : j > last => text[j] # "]")
  <2>1. SafeCut(text) = Len(text)
    BY <1>1, <1>6
  <2>2. ASSUME NEW k \in 1 .. Len(text), k > Len(text) - 2, text[k] = "["
        PROVE  k + 1 \in 1 .. Len(text) /\ text[k + 1] # "name"
    <3>1. k \in opens
      BY <1>4, <2>2
    <3>2. PICK j \in 1 .. Len(text) : j > last /\ text[j] = "]"
      BY <1>6, <3>1
    <3>3. k <= last /\ last \in 1 .. Len(text)
      BY <1>2, <1>3, <3>1
    <3>4. j = k + 1
      BY <1>0, <2>2, <3>2, <3>3
    <3> QED BY <3>2, <3>4
  <2> QED BY <1>0, <2>1, <2>2 DEF SafeAt
<1> QED BY <1>5, <1>6

(* Where it is safe it stays so.                                           *)
LEMMA SafeStays ==
    ASSUME NEW text \in Seq(Symbols), NEW piece \in Seq(Symbols), NEW c \in 0 .. Len(text), SafeAt(text, c)
    PROVE  SafeAt(text \o piece, c)
<1>1. Len(text) \in Nat /\ Len(piece) \in Nat /\ Len(text \o piece) = Len(text) + Len(piece)
  OBVIOUS
<1>2. \A i \in 1 .. Len(text) : (text \o piece)[i] = text[i] /\ i \in 1 .. Len(text \o piece)
  BY <1>1
<1>3. \A k \in 1 .. c : k \in 1 .. Len(text)
  BY <1>1
<1> QED BY <1>2, <1>3 DEF SafeAt

(* A placeholder takes the place of what was restored of its beginning.    *)
LEMMA PlaceholderIsValue ==
    ASSUME NEW text \in Seq(Symbols), NEW F, RestoredSteps(text, F), NEW n \in 1 .. Len(text), EndsAt(text, n)
    PROVE  /\ n >= 3 /\ F[n] = Append(F[n - 3], "value")
           /\ text[n - 2] = "[" /\ text[n - 1] = "name" /\ text[n] = "]"
<1>0. Len(text) \in Nat /\ n >= 3
  BY DEF EndsAt
<1>1. text[n - 2] = "[" /\ text[n - 1] = "name" /\ text[n] = "]"
  <2>1. SubSeq(text, n - 2, n) = <<"[", "name", "]">>
    BY DEF EndsAt, Placeholder
  <2>2. /\ SubSeq(text, n - 2, n)[1] = text[n - 2] /\ SubSeq(text, n - 2, n)[2] = text[n - 1]
        /\ SubSeq(text, n - 2, n)[3] = text[n]
    BY <1>0
  <2> DEFINE t == SubSeq(text, n - 2, n)
  <2>3. t = <<"[", "name", "]">> /\ t[1] = text[n - 2] /\ t[2] = text[n - 1] /\ t[3] = text[n]
    BY <2>1, <2>2
  <2> HIDE DEF t
  <2> QED BY <2>3
<1>2. \A m \in 1 .. Len(text) : EndsAt(text, m) => text[m] = "]"
  <2> SUFFICES ASSUME NEW m \in 1 .. Len(text), EndsAt(text, m) PROVE text[m] = "]"
    OBVIOUS
  <2>1. m >= 3 /\ SubSeq(text, m - 2, m) = <<"[", "name", "]">>
    BY DEF EndsAt, Placeholder
  <2>2. SubSeq(text, m - 2, m)[3] = text[m]
    BY <1>0, <2>1
  <2> DEFINE t == SubSeq(text, m - 2, m)
  <2>3. t = <<"[", "name", "]">> /\ t[3] = text[m]
    BY <2>1, <2>2
  <2> HIDE DEF t
  <2> QED BY <2>3
<1>3. /\ n - 3 \in 0 .. Len(text) /\ n - 2 \in 1 .. Len(text) /\ n - 1 \in 1 .. Len(text)
      /\ (n - 2) - 1 = n - 3 /\ (n - 1) - 1 = n - 2
  BY <1>0
<1>4. F[n - 2] = Append(F[n - 3], "[")
  <2>1. ~EndsAt(text, n - 2)
    BY <1>1, <1>2, <1>3
  <2> QED BY <1>1, <1>3, <2>1 DEF RestoredSteps, RestoredNext
<1>5. F[n - 1] = Append(F[n - 2], "name")
  <2>1. ~EndsAt(text, n - 1)
    BY <1>1, <1>2, <1>3
  <2> QED BY <1>1, <1>3, <2>1 DEF RestoredSteps, RestoredNext
<1>6. F[n] = Append(SubSeq(F[n - 1], 1, Len(F[n - 1]) - 2), "value")
  BY DEF RestoredSteps, RestoredNext
<1>7. PICK v \in Seq(Out) : v = F[n - 3]
  BY <1>3 DEF RestoredSteps
<1>8. PICK w : w = Append(Append(v, "["), "name")
  OBVIOUS
<1>9. SubSeq(w, 1, Len(w) - 2) = v
  <2>1. "[" \in Out /\ "name" \in Out
    BY DEF Out, Symbols
  <2>2. w \in Seq(Out) /\ Len(w) = Len(v) + 2 /\ Len(v) \in Nat /\ \A i \in 1 .. Len(v) : w[i] = v[i]
    BY <1>8, <2>1
  <2> HIDE DEF Out
  <2>3. Len(w) - 2 = Len(v)
    BY <2>2
  <2>4. SubSeq(w, 1, Len(v)) \in Seq(Out) /\ Len(SubSeq(w, 1, Len(v))) = Len(v)
    BY <2>2
  <2>5. \A i \in 1 .. Len(v) : SubSeq(w, 1, Len(v))[i] = v[i]
    BY <2>2
  <2> QED BY <2>3, <2>4, <2>5
<1> QED BY <1>0, <1>1, <1>4, <1>5, <1>6, <1>7, <1>8, <1>9

(* What is restored up to a safe place stays, whatever comes after it.     *)
LEMMA RestoredGrows ==
    ASSUME NEW text \in Seq(Symbols), NEW F, RestoredSteps(text, F),
           NEW c \in 0 .. Len(text), SafeAt(text, c), NEW m \in c .. Len(text)
    PROVE  StartsWith(F[c], F[m])
<1>0. Len(text) \in Nat /\ c \in Nat
  OBVIOUS
<1>a. \A n \in 0 .. Len(text) : F[n] \in Seq(Out)
  BY DEF RestoredSteps
<1> DEFINE T == {n \in Nat : \A k \in c .. n : k <= Len(text) => StartsWith(F[c], F[k])}
<1>1. 0 \in T
  BY <1>0 DEF StartsWith
<1>2. ASSUME NEW n \in Nat, n \in T PROVE n + 1 \in T
  <2> SUFFICES ASSUME c <= n + 1, n + 1 <= Len(text) PROVE StartsWith(F[c], F[n + 1])
    BY <1>0, <1>2
  <2>1. CASE c = n + 1
    BY <2>1 DEF StartsWith
  <2>2. CASE c # n + 1
    <3>1. c <= n /\ n \in c .. n /\ n + 1 \in 1 .. Len(text) /\ (n + 1) - 1 = n /\ n \in 0 .. Len(text)
      BY <1>0, <2>2
    <3>2. StartsWith(F[c], F[n])
      BY <1>2, <3>1
    <3>3. CASE EndsAt(text, n + 1)
      <4>1. /\ n + 1 >= 3 /\ F[n + 1] = Append(F[(n + 1) - 3], "value")
            /\ text[(n + 1) - 2] = "[" /\ text[(n + 1) - 1] = "name" /\ text[n + 1] = "]"
        BY <3>1, <3>3, PlaceholderIsValue
      <4>2. (n + 1) - 2 > c
        <5> SUFFICES ASSUME (n + 1) - 2 <= c PROVE FALSE
          BY <1>0
        <5>1. (n + 1) - 2 \in 1 .. c /\ (n + 1) - 2 > c - 2
          BY <1>0, <3>1, <4>1
        <5>2. ((n + 1) - 2) + 1 = (n + 1) - 1 /\ ((n + 1) - 2) + 2 = n + 1
          OBVIOUS
        <5> QED BY <4>1, <5>1, <5>2 DEF SafeAt
      <4>3. (n + 1) - 3 \in c .. n /\ (n + 1) - 3 \in 0 .. Len(text)
        BY <1>0, <3>1, <4>2
      <4>4. StartsWith(F[c], F[(n + 1) - 3])
        BY <1>2, <4>3
      <4>5. F[c] \in Seq(Out) /\ F[(n + 1) - 3] \in Seq(Out) /\ "value" \in Out
        BY <1>0, <1>a, <4>3 DEF Out
      <4> QED BY <4>1, <4>4, <4>5, LongerBegins
    <3>4. CASE ~EndsAt(text, n + 1)
      <4>1. F[n + 1] = Append(F[n], text[n + 1])
        BY <3>1, <3>4 DEF RestoredSteps, RestoredNext
      <4>2. F[c] \in Seq(Out) /\ F[n] \in Seq(Out) /\ text[n + 1] \in Out
        BY <1>0, <1>a, <3>1 DEF Out
      <4> QED BY <3>2, <4>1, <4>2, LongerBegins
    <3> QED BY <3>3, <3>4
  <2> QED BY <2>1, <2>2
<1> HIDE DEF T
<1>3. \A n \in Nat : n \in T
  BY <1>1, <1>2, Counting
<1>4. m \in Nat /\ m \in c .. m /\ m <= Len(text)
  BY <1>0
<1>5. m \in T
  BY <1>3, <1>4
<1> QED BY <1>4, <1>5 DEF T

(* An answer that is open has shown and keeps back, together, what is      *)
(* restored of a beginning of its text that no placeholder straddles; it   *)
(* ends once, and then all of it was shown.                                *)
StreamInv ==
    /\ raw \in Seq(Symbols)
    /\ finals = IF ended = "open" THEN 0 ELSE 1
    /\ ended \in {"open", "failed", "interrupted", "truncated", "complete"}
    /\ ended = "open" =>
          /\ shown \in Seq(Out) /\ buf \in Seq(Out) /\ sent = Len(shown \o buf)
          /\ \E c \in 0 .. Len(raw) : SafeAt(raw, c) /\ shown \o buf = Restored(SubSeq(raw, 1, c))
    /\ ShownAtLast

(* Nothing is restored of nothing.                                         *)
LEMMA RestoredNothing == Restored(<<>>) = <<>>
<1>1. <<>> \in Seq(Symbols) /\ Len(<<>>) = 0
  OBVIOUS
<1>2. PICK F : RestoredSteps(<<>>, F) /\ Restored(<<>>) = F[0]
  BY <1>1, RestoredIs
<1> QED BY <1>2 DEF RestoredSteps

(* Nothing has been said at first.                                         *)
LEMMA StreamStarts == StreamInit => StreamInv
<1> SUFFICES ASSUME StreamInit PROVE StreamInv
  OBVIOUS
<1>1. /\ raw = <<>> /\ sent = 0 /\ buf = <<>> /\ shown = <<>> /\ finals = 0 /\ ended = "open"
  BY DEF StreamInit
<1>2. raw \in Seq(Symbols) /\ Len(raw) = 0 /\ 0 \in 0 .. Len(raw)
  BY <1>1
<1>3. shown \in Seq(Out) /\ buf \in Seq(Out) /\ shown \o buf = <<>> /\ Len(shown \o buf) = 0
  BY <1>1
<1>4. SubSeq(raw, 1, 0) = <<>>
  BY <1>1
<1>5. SafeAt(raw, 0)
  BY DEF SafeAt
<1> QED BY <1>1, <1>2, <1>3, <1>4, <1>5, RestoredNothing DEF StreamInv, ShownAtLast

(* What is out, and what was restored of all that came.                    *)
LEMMA OutBegins ==
    ASSUME StreamInv, ended = "open"
    PROVE  /\ Restored(raw) \in Seq(Out) /\ shown \o buf \in Seq(Out)
           /\ StartsWith(shown \o buf, Restored(raw))
<1>1. raw \in Seq(Symbols) /\ shown \o buf \in Seq(Out) /\ Len(raw) \in Nat
  <2>1. raw \in Seq(Symbols) /\ shown \in Seq(Out) /\ buf \in Seq(Out)
    BY DEF StreamInv
  <2> HIDE DEF StreamInv
  <2> QED BY <2>1
<1>2. PICK c \in 0 .. Len(raw) : SafeAt(raw, c) /\ shown \o buf = Restored(SubSeq(raw, 1, c))
  BY DEF StreamInv
<1>3. PICK F : RestoredSteps(raw, F) /\ Restored(raw) = F[Len(raw)]
  BY <1>1, RestoredIs
<1>4. Restored(SubSeq(raw, 1, c)) = F[c]
  BY <1>1, <1>3, BeginningsAgree
<1>5. Len(raw) \in c .. Len(raw) /\ Len(raw) \in 0 .. Len(raw)
  BY <1>1
<1>6. StartsWith(F[c], F[Len(raw)])
  BY <1>1, <1>2, <1>3, <1>5, RestoredGrows
<1>7. F[Len(raw)] \in Seq(Out)
  BY <1>3, <1>5 DEF RestoredSteps
<1> QED BY <1>1, <1>2, <1>3, <1>4, <1>6, <1>7

(* A piece of the text shows more of it and nothing twice.                 *)
LEMMA DeltaStep ==
    ASSUME StreamInv, NEW piece \in Seq(Symbols), Delta(piece)
    PROVE  StreamInv'
<1> DEFINE t == raw \o piece
           old == shown \o buf
           cut == SafeCut(t)
           now == Restored(SubSeq(t, 1, cut))
           out == IF Len(now) <= sent THEN <<>> ELSE SubSeq(now, sent + 1, Len(now))
<1>0. ended = "open" /\ raw \in Seq(Symbols) /\ shown \in Seq(Out) /\ buf \in Seq(Out) /\ sent = Len(old) /\ finals = 0
  BY DEF StreamInv, Delta
<1>1. /\ raw' = t /\ sent' = sent + Len(out) /\ finals' = finals /\ ended' = ended
      /\ \/ shown' = shown /\ buf' = buf \o out
         \/ out # <<>> /\ shown' = shown \o buf \o out /\ buf' = <<>>
  BY DEF Delta, Beyond
<1>2. PICK c \in 0 .. Len(raw) : SafeAt(raw, c) /\ old = Restored(SubSeq(raw, 1, c))
  BY <1>0 DEF StreamInv
<1>3. t \in Seq(Symbols) /\ Len(raw) \in Nat /\ Len(t) \in Nat /\ Len(t) >= Len(raw) /\ c \in 0 .. Len(t)
      /\ SubSeq(t, 1, c) = SubSeq(raw, 1, c)
  <2>1. Len(raw) \in Nat /\ Len(piece) \in Nat /\ Len(t) = Len(raw) + Len(piece) /\ t \in Seq(Symbols)
    BY <1>0
  <2>2. \A i \in 1 .. Len(raw) : t[i] = raw[i]
    BY <1>0
  <2>3. c \in Nat /\ c <= Len(raw) /\ c <= Len(t)
    BY <2>1
  <2> HIDE DEF t
  <2>4. SubSeq(t, 1, c) \in Seq(Symbols) /\ SubSeq(raw, 1, c) \in Seq(Symbols)
        /\ Len(SubSeq(t, 1, c)) = c /\ Len(SubSeq(raw, 1, c)) = c
    <3>1. \A i \in 1 .. c : t[i] \in Symbols /\ raw[i] \in Symbols
      BY <1>0, <2>1, <2>3
    <3> QED BY <1>0, <2>1, <2>3, <3>1
  <2>5. \A i \in 1 .. c : SubSeq(t, 1, c)[i] = SubSeq(raw, 1, c)[i]
    BY <1>0, <2>1, <2>2, <2>3
  <2> QED BY <2>1, <2>3, <2>4, <2>5
<1>4. SafeAt(t, c)
  BY <1>0, <1>2, SafeStays
<1> HIDE DEF t
<1>5. cut \in 0 .. Len(t) /\ SafeAt(t, cut)
  BY <1>3, CutIsSafe
<1> HIDE DEF cut
<1>6. PICK F : RestoredSteps(t, F)
  BY <1>3, RestoredIs
<1>7. old = F[c] /\ now = F[cut]
  BY <1>2, <1>3, <1>5, <1>6, BeginningsAgree
<1>8. F[c] \in Seq(Out) /\ F[cut] \in Seq(Out)
  BY <1>3, <1>5, <1>6 DEF RestoredSteps
<1>9. old \in Seq(Out) /\ now \in Seq(Out) /\ Len(old) \in Nat /\ Len(now) \in Nat
  BY <1>7, <1>8
<1>10. \E k \in 0 .. Len(t) : SafeAt(t, k) /\ old \o out = F[k] /\ out \in Seq(Out) /\ sent + Len(out) = Len(old \o out)
  <2>1. CASE Len(now) <= sent
    <3>1. out = <<>>
      BY <2>1
    <3> HIDE DEF out, old
    <3>2. old \o out = old /\ out \in Seq(Out) /\ Len(out) = 0
      BY <1>9, <3>1
    <3> QED BY <1>0, <1>3, <1>4, <1>7, <1>9, <3>2
  <2>2. CASE ~(Len(now) <= sent)
    <3>1. c <= cut
      <4> SUFFICES ASSUME cut < c PROVE FALSE
        BY <1>3, <1>5
      <4>1. c \in cut .. Len(t)
        BY <1>3, <1>5
      <4>2. StartsWith(F[cut], F[c])
        BY <1>3, <1>5, <1>6, <4>1, RestoredGrows
      <4> QED BY <1>0, <1>7, <1>9, <2>2, <4>2 DEF StartsWith
    <3>2. cut \in c .. Len(t)
      BY <1>3, <1>5, <3>1
    <3>3. StartsWith(old, now)
      BY <1>3, <1>4, <1>6, <1>7, <3>2, RestoredGrows
    <3>4. out = SubSeq(now, Len(old) + 1, Len(now))
      BY <1>0, <2>2
    <3> HIDE DEF out, old, now
    <3>5. out \in Seq(Out) /\ old \o out = now /\ Len(out) = Len(now) - Len(old)
      BY <1>9, <3>3, <3>4, BeginningAndRest
    <3> QED BY <1>0, <1>5, <1>7, <1>9, <3>5
  <2> QED BY <2>1, <2>2
<1> HIDE DEF now, out
<1>11. shown' \in Seq(Out) /\ buf' \in Seq(Out) /\ shown' \o buf' = old \o out
  <2>1. out \in Seq(Out)
    BY <1>10
  <2>2. CASE shown' = shown /\ buf' = buf \o out
    <3>1. buf \o out \in Seq(Out)
      BY <1>0, <2>1
    <3>2. shown \o (buf \o out) = (shown \o buf) \o out
      BY <1>0, <2>1, ConcatAssociative, SMTT(40)
    <3> QED BY <1>0, <2>2, <3>1, <3>2
  <2>3. CASE shown' = shown \o buf \o out /\ buf' = <<>>
    <3>1. old \o out \in Seq(Out) /\ <<>> \in Seq(Out)
      BY <1>9, <2>1
    <3> DEFINE all == old \o out
    <3>2. shown' = all /\ buf' = <<>> /\ all \in Seq(Out)
      BY <2>3, <3>1
    <3> HIDE DEF all
    <3>3. shown' \o buf' = all
      BY <3>2, EmptyConcat
    <3> QED BY <3>1, <3>2, <3>3 DEF all
  <2> QED BY <1>1, <2>2, <2>3
<1>12. PICK k \in 0 .. Len(t) : SafeAt(t, k) /\ old \o out = F[k] /\ sent + Len(out) = Len(old \o out)
  BY <1>10
<1>13. Restored(SubSeq(t, 1, k)) = F[k]
  BY <1>3, <1>6, BeginningsAgree
<1> HIDE DEF old
<1>14. raw' \in Seq(Symbols) /\ ended' = "open" /\ finals' = 0 /\ sent' = Len(shown' \o buf')
  BY <1>0, <1>1, <1>3, <1>11, <1>12
<1>15. k \in 0 .. Len(raw') /\ SafeAt(raw', k) /\ shown' \o buf' = Restored(SubSeq(raw', 1, k))
  BY <1>1, <1>11, <1>12, <1>13
<1>16. ShownAtLast'
  BY <1>14 DEF ShownAtLast
<1> QED BY <1>11, <1>14, <1>15, <1>16 DEF StreamInv, SafeAt

(* The end of the text shows what was kept back.                           *)
LEMMA EndingStep ==
    ASSUME StreamInv, NEW how \in {"interrupted", "truncated", "complete"}, StreamEnds(how)
    PROVE  StreamInv'
<1> DEFINE old == shown \o buf
           whole == Restored(raw)
           rest == SubSeq(whole, sent + 1, Len(whole))
<1>0. ended = "open" /\ raw \in Seq(Symbols) /\ sent = Len(old)
  BY DEF StreamInv, StreamEnds
<1>1. whole \in Seq(Out) /\ old \in Seq(Out) /\ StartsWith(old, whole)
  BY <1>0, OutBegins
<1>2. /\ shown' = shown \o buf \o Ending(how) /\ finals' = finals + 1 /\ ended' = how /\ raw' = raw
  BY DEF StreamEnds
<1>3. Ending(how) = CASE how = "interrupted" -> <<"interrupted">> \o rest
                     [] how = "truncated"   -> rest \o <<"truncated">>
                     [] how = "complete"    -> rest
  BY DEF Ending, Beyond
<1>4. PICK w : w = whole
  OBVIOUS
<1>5. w \in Seq(Out) /\ Restored(raw') = w
  BY <1>1, <1>2, <1>4
<1> HIDE DEF old
<1>6. Len(old) \in Nat /\ Len(old) <= Len(w) /\ Len(w) \in Nat /\ old = SubSeq(w, 1, Len(old)) /\ rest = SubSeq(w, Len(old) + 1, Len(w))
  BY <1>0, <1>1, <1>4, BeginningAndRest DEF StartsWith
<1>7. rest \in Seq(Out) /\ old \o rest = w
  BY <1>0, <1>1, <1>4, BeginningAndRest
<1> HIDE DEF whole, rest
<1>b. raw' \in Seq(Symbols) /\ finals' = 1 /\ ended' = how /\ how # "open"
  BY <1>0, <1>2 DEF StreamInv
<1>8. CASE how = "complete"
  <2>1. shown' = old \o rest
    BY <1>2, <1>3, <1>8 DEF old
  <2>2. shown' = Restored(raw')
    BY <1>5, <1>7, <2>1
  <2> QED BY <1>b, <1>8, <2>2 DEF StreamInv, ShownAtLast
<1>9. CASE how = "truncated"
  <2>1. shown' = old \o (rest \o <<"truncated">>)
    BY <1>2, <1>3, <1>9 DEF old
  <2> DEFINE D == Out \cup {"truncated"}
  <2>2. old \in Seq(D) /\ rest \in Seq(D) /\ <<"truncated">> \in Seq(D)
    BY <1>1, <1>7
  <2> HIDE DEF D
  <2>3. old \o (rest \o <<"truncated">>) = (old \o rest) \o <<"truncated">>
    BY <2>2, ConcatAssociative
  <2>4. w \o <<"truncated">> = Append(w, "truncated")
    BY <1>5
  <2>5. shown' = Append(Restored(raw'), "truncated")
    BY <1>5, <1>7, <2>1, <2>3, <2>4
  <2> QED BY <1>b, <1>9, <2>5 DEF StreamInv, ShownAtLast
<1>10. CASE how = "interrupted"
  <2>1. shown' = old \o (<<"interrupted">> \o rest)
    BY <1>2, <1>3, <1>10 DEF old
  <2> DEFINE D == Out \cup {"interrupted"}
  <2>2. old \in Seq(D) /\ rest \in Seq(D) /\ <<"interrupted">> \in Seq(D)
    BY <1>1, <1>7
  <2> HIDE DEF D
  <2>3. old \o (<<"interrupted">> \o rest) = (old \o <<"interrupted">>) \o rest
    BY <2>2, ConcatAssociative
  <2>4. Len(old) \in 0 .. Len(w)
    BY <1>6
  <2>5. shown' = SubSeq(w, 1, Len(old)) \o <<"interrupted">> \o SubSeq(w, Len(old) + 1, Len(w))
    BY <1>6, <2>1, <2>3
  <2>6. \E k \in 0 .. Len(w) : shown' = SubSeq(w, 1, k) \o <<"interrupted">> \o SubSeq(w, k + 1, Len(w))
    BY <2>4, <2>5
  <2>7. \E k \in 0 .. Len(Restored(raw')) :
           shown' = SubSeq(Restored(raw'), 1, k) \o <<"interrupted">> \o SubSeq(Restored(raw'), k + 1, Len(Restored(raw')))
    BY <1>5, <2>6
  <2> QED BY <1>b, <1>10, <2>7 DEF StreamInv, ShownAtLast
<1> QED BY <1>8, <1>9, <1>10

(* Every step of the stream keeps the invariant.                           *)
LEMMA StreamStep == StreamInv /\ [StreamNext]_streamVars => StreamInv'
<1> SUFFICES ASSUME StreamInv, [StreamNext]_streamVars PROVE StreamInv'
  OBVIOUS
<1>1. ASSUME NEW piece \in Pieces, Delta(piece) PROVE StreamInv'
  <2>1. piece \in Seq(Symbols)
    <3>1. CASE \E s \in Symbols : piece = <<s>>
      BY <3>1
    <3>2. CASE \E s, u \in Symbols : piece = <<s, u>>
      BY <3>2
    <3> QED BY <3>1, <3>2 DEF Pieces
  <2> QED BY <1>1, <2>1, DeltaStep
<1>2. CASE NothingCame
  BY <1>2 DEF NothingCame, StreamInv, ShownAtLast
<1>3. ASSUME NEW how \in {"interrupted", "truncated", "complete"}, StreamEnds(how) PROVE StreamInv'
  BY <1>3, EndingStep
<1>4. CASE UNCHANGED streamVars
  BY <1>4 DEF streamVars, StreamInv, ShownAtLast
<1> QED BY <1>1, <1>2, <1>3, <1>4 DEF StreamNext

(* The invariant says that a streamed answer is shown whole                *)
(* (rag/handler.py).                                                       *)
LEMMA StreamGives == StreamInv => StreamedHolds
<1> SUFFICES ASSUME StreamInv PROVE StreamedHolds
  OBVIOUS
<1>1. ShownIsRestored
  <2> SUFFICES ASSUME ended = "open" PROVE IsPrefix(shown \o buf, Restored(raw))
    BY DEF ShownIsRestored
  <2> DEFINE old == shown \o buf
             whole == Restored(raw)
  <2>1. old \in Seq(Out) /\ whole \in Seq(Out) /\ StartsWith(old, whole)
    BY OutBegins
  <2> HIDE DEF old, whole
  <2>2. Len(old) <= Len(whole) /\ SubSeq(whole, 1, Len(old)) = old
    BY <2>1, BeginningAndRest DEF StartsWith
  <2>3. SubSeq(old, 1, Len(old)) = old
    <3>1. StartsWith(old, old)
      BY <2>1 DEF StartsWith
    <3> QED BY <2>1, <3>1, BeginningAndRest
  <2> QED BY <2>2, <2>3 DEF old, whole, IsPrefix
<1> QED BY <1>1 DEF StreamedHolds, StreamInv, ToldOnce

(***************************************************************************)
(* Advice on a review (workflow.py)                                        *)
(***************************************************************************)

(* What a list names is its set.                                           *)
LEMMA NamedIsSet ==
    ASSUME NEW D, NEW s \in Seq(D)
    PROVE  ToSet(s) = NamesOf(s)
BY DEF ToSet, NamesOf

(* A list without some names is a list of the others (_rebuild_approvals   *)
(* and what is still pending).                                             *)
LEMMA WithoutWorks ==
    ASSUME NEW D, NEW s \in Seq(D), NEW done
    PROVE  /\ Without(s, done) \in Seq(D)
           /\ NamesOf(Without(s, done)) = NamesOf(s) \ done
<1> DEFINE V == Seq(D)
           none == <<>>
           K == Len(s)
           more(n, v) == IF s[n] \in done THEN v ELSE Append(v, s[n])
           step == [p \in (1 .. K) \X V |-> more(p[1], p[2])]
<1>1. K \in Nat /\ none \in V
  OBVIOUS
<1>2. \A n \in 1 .. K, v \in V : more(n, v) \in V
  OBVIOUS
<1> HIDE DEF V, none, K, more
<1>3. step \in Steps(V, K) /\ \A n \in 1 .. K, v \in V : step[<<n, v>>] = more(n, v)
  BY <1>2 DEF Steps
<1> HIDE DEF step
<1>4. PICK f \in Runs(V, K) : Unfolds(f, K, none, step)
  BY <1>1, <1>3, Recursion
<1>5. f \in [0 .. K -> V] /\ f[0] = none /\ \A n \in 1 .. K : f[n] = step[<<n, f[n - 1]>>]
  BY <1>4 DEF Runs, Unfolds
<1>6. ASSUME NEW n \in 0 .. K PROVE f[n] = IF n = 0 THEN none ELSE more(n, f[n - 1])
  <2>1. CASE n = 0
    BY <1>5, <2>1
  <2>2. CASE n # 0
    <3>1. n \in 1 .. K /\ n - 1 \in 0 .. K
      BY <1>1, <2>2
    <3> QED BY <1>3, <1>5, <2>2, <3>1
  <2> QED BY <2>1, <2>2
<1>7. f = [n \in 0 .. K |-> IF n = 0 THEN none ELSE more(n, f[n - 1])]
  BY <1>5, <1>6
<1> DEFINE F == CHOOSE g : g = [n \in 0 .. K |-> IF n = 0 THEN none ELSE more(n, g[n - 1])]
<1>8. F = [n \in 0 .. K |-> IF n = 0 THEN none ELSE more(n, F[n - 1])]
  BY <1>7
<1>9. Without(s, done) = F[K]
  BY DEF Without, none, more, K
<1> HIDE DEF F
<1>10. F[0] = none /\ \A n \in 1 .. K : F[n] = more(n, F[n - 1])
  BY <1>1, <1>8
<1> DEFINE Good == {p \in (0 .. K) \X V : NamesOf(p[2]) = {s[i] : i \in 1 .. p[1]} \ done}
<1>11. <<0, F[0]>> \in Good
  BY <1>1, <1>10 DEF NamesOf, none
<1>12. ASSUME NEW n \in 1 .. K, <<n - 1, F[n - 1]>> \in Good PROVE <<n, F[n]>> \in Good
  <2> DEFINE v == F[n - 1]
  <2>1. v \in Seq(D) /\ NamesOf(v) = {s[i] : i \in 1 .. (n - 1)} \ done /\ s[n] \in D
    BY <1>12 DEF V, K
  <2>2. {s[i] : i \in 1 .. n} = {s[i] : i \in 1 .. (n - 1)} \cup {s[n]}
    BY <1>1
  <2>3. F[n] = IF s[n] \in done THEN v ELSE Append(v, s[n])
    BY <1>10 DEF more
  <2> HIDE DEF v
  <2>4. CASE s[n] \in done
    BY <2>1, <2>2, <2>3, <2>4 DEF V
  <2>5. CASE s[n] \notin done
    <3>1. F[n] = Append(v, s[n])
      BY <2>3, <2>5
    <3>2. F[n] \in Seq(D) /\ NamesOf(F[n]) = NamesOf(v) \cup {s[n]}
      BY <2>1, <3>1, NamedAppend
    <3> QED BY <2>1, <2>2, <2>5, <3>2 DEF V
  <2> QED BY <2>4, <2>5
<1> HIDE DEF Good
<1>13. <<K, F[K]>> \in Good
  BY <1>1, <1>11, <1>12, LoopKeeps
<1> QED BY <1>9, <1>13 DEF Good, NamesOf, K, V

(* A list with each name once names what it named.                         *)
LEMMA OnceWorks ==
    ASSUME NEW D, NEW s \in Seq(D)
    PROVE  /\ Once(s) \in Seq(D)
           /\ NamesOf(Once(s)) = NamesOf(s)
<1> DEFINE V == Seq(D)
           none == <<>>
           K == Len(s)
           more(n, v) == IF s[n] \in ToSet(v) THEN v ELSE Append(v, s[n])
           step == [p \in (1 .. K) \X V |-> more(p[1], p[2])]
<1>1. K \in Nat /\ none \in V
  OBVIOUS
<1>2. \A n \in 1 .. K, v \in V : more(n, v) \in V
  OBVIOUS
<1> HIDE DEF V, none, K, more
<1>3. step \in Steps(V, K) /\ \A n \in 1 .. K, v \in V : step[<<n, v>>] = more(n, v)
  BY <1>2 DEF Steps
<1> HIDE DEF step
<1>4. PICK f \in Runs(V, K) : Unfolds(f, K, none, step)
  BY <1>1, <1>3, Recursion
<1>5. f \in [0 .. K -> V] /\ f[0] = none /\ \A n \in 1 .. K : f[n] = step[<<n, f[n - 1]>>]
  BY <1>4 DEF Runs, Unfolds
<1>6. ASSUME NEW n \in 0 .. K PROVE f[n] = IF n = 0 THEN none ELSE more(n, f[n - 1])
  <2>1. CASE n = 0
    BY <1>5, <2>1
  <2>2. CASE n # 0
    <3>1. n \in 1 .. K /\ n - 1 \in 0 .. K
      BY <1>1, <2>2
    <3> QED BY <1>3, <1>5, <2>2, <3>1
  <2> QED BY <2>1, <2>2
<1>7. f = [n \in 0 .. K |-> IF n = 0 THEN none ELSE more(n, f[n - 1])]
  BY <1>5, <1>6
<1> DEFINE F == CHOOSE g : g = [n \in 0 .. K |-> IF n = 0 THEN none ELSE more(n, g[n - 1])]
<1>8. F = [n \in 0 .. K |-> IF n = 0 THEN none ELSE more(n, F[n - 1])]
  BY <1>7
<1>9. Once(s) = F[K]
  BY DEF Once, none, more, K
<1> HIDE DEF F
<1>10. F[0] = none /\ \A n \in 1 .. K : F[n] = more(n, F[n - 1])
  BY <1>1, <1>8
<1> DEFINE Good == {p \in (0 .. K) \X V : NamesOf(p[2]) = {s[i] : i \in 1 .. p[1]}}
<1>11. <<0, F[0]>> \in Good
  BY <1>1, <1>10 DEF NamesOf, none
<1>12. ASSUME NEW n \in 1 .. K, <<n - 1, F[n - 1]>> \in Good PROVE <<n, F[n]>> \in Good
  <2> DEFINE v == F[n - 1]
  <2>1. v \in Seq(D) /\ NamesOf(v) = {s[i] : i \in 1 .. (n - 1)} /\ s[n] \in D
    BY <1>12 DEF V, K
  <2>2. {s[i] : i \in 1 .. n} = {s[i] : i \in 1 .. (n - 1)} \cup {s[n]}
    BY <1>1
  <2>3. F[n] = IF s[n] \in NamesOf(v) THEN v ELSE Append(v, s[n])
    BY <1>10, <2>1, NamedIsSet DEF more
  <2> HIDE DEF v
  <2>4. CASE s[n] \in NamesOf(v)
    BY <2>1, <2>2, <2>3, <2>4 DEF V
  <2>5. CASE s[n] \notin NamesOf(v)
    <3>1. F[n] = Append(v, s[n])
      BY <2>3, <2>5
    <3>2. F[n] \in Seq(D) /\ NamesOf(F[n]) = NamesOf(v) \cup {s[n]}
      BY <2>1, <3>1, NamedAppend
    <3>3. NamesOf(F[n]) = {s[i] : i \in 1 .. n}
      BY <2>1, <2>2, <3>2
    <3>4. <<n, F[n]>> \in (0 .. K) \X V
      BY <1>1, <3>2 DEF V
    <3> QED BY <3>3, <3>4
  <2> QED BY <2>4, <2>5
<1> HIDE DEF Good
<1>13. <<K, F[K]>> \in Good
  BY <1>1, <1>11, <1>12, LoopKeeps
<1> QED BY <1>9, <1>13 DEF Good, NamesOf, K, V

(* The rules of the organization name offices.                             *)
LEMMA RulesNameOffices ==
    ASSUME NEW c
    PROVE  RuleOffices(c) \in Seq(AdviceOffices)
<1> DEFINE hit(rule) == /\ rule.types = {} \/ c.kind.type \in rule.types
                        /\ Triggers(rule) = {} \/ Fires(rule, c)
           U == CHOOSE g : g = [k \in 0 .. Len(RoutingRules) |->
                    IF k = 0 THEN <<>>
                    ELSE IF hit(RoutingRules[k]) THEN g[k - 1] \o RoutingRules[k].route
                    ELSE g[k - 1]]
<1>0. RuleOffices(c) = IF ruled THEN U[Len(RoutingRules)] ELSE <<>>
  BY DEF RuleOffices
<1> HIDE DEF hit
<1> DEFINE V == Seq(AdviceOffices)
           none == <<>>
           K == Len(RoutingRules)
           more(n, v) == IF hit(RoutingRules[n]) THEN v \o RoutingRules[n].route ELSE v
           step == [p \in (1 .. K) \X V |-> more(p[1], p[2])]
<1>1. K \in Nat /\ none \in V
  BY AdviceAssumption
<1>2. \A n \in 1 .. K, v \in V : more(n, v) \in V
  <2> TAKE n \in 1 .. K, v \in V
  <2>1. RoutingRules[n].route \in Seq(AdviceOffices)
    BY AdviceAssumption
  <2> DEFINE route == RoutingRules[n].route
  <2>2. v \o route \in V
    <3> HIDE DEF route
    <3> QED BY <2>1 DEF route
  <2> QED BY <2>2
<1> HIDE DEF V, none, K, more
<1>3. step \in Steps(V, K) /\ \A n \in 1 .. K, v \in V : step[<<n, v>>] = more(n, v)
  BY <1>2 DEF Steps
<1> HIDE DEF step
<1>4. PICK f \in Runs(V, K) : Unfolds(f, K, none, step)
  BY <1>1, <1>3, Recursion
<1>5. f \in [0 .. K -> V] /\ f[0] = none /\ \A n \in 1 .. K : f[n] = step[<<n, f[n - 1]>>]
  BY <1>4 DEF Runs, Unfolds
<1>6. ASSUME NEW n \in 0 .. K PROVE f[n] = IF n = 0 THEN none ELSE more(n, f[n - 1])
  <2>1. CASE n = 0
    BY <1>5, <2>1
  <2>2. CASE n # 0
    <3>1. n \in 1 .. K /\ n - 1 \in 0 .. K
      BY <1>1, <2>2
    <3> QED BY <1>3, <1>5, <2>2, <3>1
  <2> QED BY <2>1, <2>2
<1>7. f = [n \in 0 .. K |-> IF n = 0 THEN none ELSE more(n, f[n - 1])]
  BY <1>5, <1>6
<1> DEFINE F == CHOOSE g : g = [n \in 0 .. K |-> IF n = 0 THEN none ELSE more(n, g[n - 1])]
<1>8. F = [n \in 0 .. K |-> IF n = 0 THEN none ELSE more(n, F[n - 1])]
  BY <1>7
<1>9. U[Len(RoutingRules)] = F[K]
  BY DEF none, more, K
<1> HIDE DEF F
<1>10. F[0] = none /\ \A n \in 1 .. K : F[n] = more(n, F[n - 1])
  BY <1>1, <1>8
<1>11. F[K] \in V
  <2> DEFINE Good == (0 .. K) \X V
  <2>1. <<0, F[0]>> \in Good
    BY <1>1, <1>10
  <2>2. ASSUME NEW n \in 1 .. K, <<n - 1, F[n - 1]>> \in Good PROVE <<n, F[n]>> \in Good
    BY <1>1, <1>2, <1>10, <2>2
  <2> HIDE DEF Good
  <2>3. <<K, F[K]>> \in Good
    BY <1>1, <2>1, <2>2, LoopKeeps
  <2> QED BY <2>3 DEF Good
<1>12. U[Len(RoutingRules)] \in Seq(AdviceOffices)
  BY <1>9, <1>11 DEF V
<1> HIDE DEF U
<1> QED BY <1>0, <1>12

(* The status of the document behind a contract.                           *)
DocStatuses == Failed \cup {"PROCESSING", "READY"}

(* What a contract is.                                                     *)
ContractTypes ==
    [state : States, draft : BOOLEAN, status : DocStatuses, owned : BOOLEAN, asked : BOOLEAN,
     open : SUBSET AdviceItems, required : Seq(AdviceOffices), escalated : Seq(AdviceOffices),
     approved : SUBSET AdviceOffices, value : Values \cup {NoValue}, kind : Kinds]

(* An office a person escalated the contract to is required,               *)
KeepsOffices(c) == NamesOf(c.escalated) \subseteq NamesOf(c.required)

(* and has approved it before it can be signed.                            *)
Signable(c) == c.state \in {"ready_to_sign", "out_for_signature"} => NamesOf(c.escalated) \subseteq c.approved

(* A contract that is well formed, routed and approved so.                 *)
Sound(c) == c \in ContractTypes /\ KeepsOffices(c) /\ Signable(c)

(* The contract under review is such a contract.                           *)
AdviceInv ==
    /\ Sound(contract)
    /\ ruled \in BOOLEAN
    /\ post \in AdviceOffices \cup {NoOffice}

(* A contract arrives so.                                                  *)
LEMMA AdviceStarts == AdviceInit => AdviceInv
<1> SUFFICES ASSUME AdviceInit PROVE AdviceInv
  OBVIOUS
<1>1. PICK k \in Kinds : contract = Arrived(k)
  BY DEF AdviceInit
<1>2. contract \in ContractTypes
  BY <1>1 DEF Arrived, ContractTypes, States, OpenStates, DocStatuses
<1>3. NamesOf(<<>>) = {}
  BY DEF NamesOf
<1>4. KeepsOffices(contract) /\ Signable(contract)
  BY <1>1, <1>3 DEF Arrived, KeepsOffices, Signable
<1> QED BY <1>2, <1>4 DEF AdviceInit, AdviceInv, Sound

(* Routing keeps all but what is required, and requires who was asked.     *)
LEMMA RoutedIs ==
    ASSUME NEW c \in ContractTypes
    PROVE  \E r \in Seq(AdviceOffices) : /\ Routed(c) = [c EXCEPT !.required = r]
                                         /\ NamesOf(c.escalated) \subseteq NamesOf(r)
<1> DEFINE r == Once(RuleOffices(c) \o c.escalated)
<1>1. RuleOffices(c) \in Seq(AdviceOffices) /\ c.escalated \in Seq(AdviceOffices)
  BY RulesNameOffices DEF ContractTypes
<1>2. /\ RuleOffices(c) \o c.escalated \in Seq(AdviceOffices)
      /\ NamesOf(c.escalated) \subseteq NamesOf(RuleOffices(c) \o c.escalated)
  BY <1>1, NamedConcat
<1>3. r \in Seq(AdviceOffices) /\ NamesOf(c.escalated) \subseteq NamesOf(r)
  BY <1>2, OnceWorks
<1>4. Routed(c) = [c EXCEPT !.required = r]
  BY DEF Routed
<1> HIDE DEF r
<1> QED BY <1>3, <1>4

(* Routing keeps a contract so.                                            *)
LEMMA Routes ==
    ASSUME NEW c \in ContractTypes
    PROVE  /\ Routed(c) \in ContractTypes /\ KeepsOffices(Routed(c))
           /\ Signable(c) => Signable(Routed(c))
           /\ Routed(c).state = c.state /\ Routed(c).value = c.value /\ Routed(c).open = c.open
           /\ Routed(c).approved = c.approved /\ Routed(c).escalated = c.escalated
           /\ Routed(c).status = c.status /\ Routed(c).owned = c.owned /\ Routed(c).asked = c.asked
           /\ NamesOf(c.escalated) \subseteq NamesOf(Routed(c).required)
<1>1. PICK r \in Seq(AdviceOffices) : Routed(c) = [c EXCEPT !.required = r] /\ NamesOf(c.escalated) \subseteq NamesOf(r)
  BY RoutedIs
<1> DEFINE d == Routed(c)
<1>2. d = [c EXCEPT !.required = r]
  BY <1>1
<1> HIDE DEF d
<1>3. d \in ContractTypes /\ d.required = r
  BY <1>2 DEF ContractTypes
<1>4. /\ d.state = c.state /\ d.value = c.value /\ d.open = c.open
      /\ d.approved = c.approved /\ d.escalated = c.escalated
      /\ d.status = c.status /\ d.owned = c.owned /\ d.asked = c.asked
  BY <1>2 DEF ContractTypes
<1>5. KeepsOffices(d) /\ (Signable(c) => Signable(d))
  BY <1>1, <1>3, <1>4 DEF KeepsOffices, Signable
<1> QED BY <1>1, <1>3, <1>4, <1>5 DEF d

(* A contract enters a state.                                              *)
LEMMA Enters ==
    ASSUME NEW c \in ContractTypes, NEW s \in States
    PROVE  /\ To(c, s) \in ContractTypes /\ (KeepsOffices(c) => KeepsOffices(To(c, s)))
           /\ To(c, s).state = s /\ To(c, s).value = c.value /\ To(c, s).open = c.open
           /\ To(c, s).approved = c.approved /\ To(c, s).escalated = c.escalated
           /\ To(c, s).required = c.required
           /\ To(c, s).status = c.status /\ To(c, s).owned = c.owned /\ To(c, s).asked = c.asked
BY DEF To, ContractTypes, KeepsOffices

(* Who is still waited for has not approved, and is an office.             *)
LEMMA PendingIs ==
    ASSUME NEW c \in ContractTypes
    PROVE  /\ StillPending(c) \in Seq(AdviceOffices)
           /\ ToSet(StillPending(c)) = NamesOf(c.required) \ c.approved
           /\ StillPending(c) = <<>> <=> NamesOf(c.required) \subseteq c.approved
           /\ StillPending(c) # <<>> => Head(StillPending(c)) \in NamesOf(c.required) \ c.approved
<1>1. c.required \in Seq(AdviceOffices)
  BY DEF ContractTypes
<1>2. StillPending(c) \in Seq(AdviceOffices) /\ NamesOf(StillPending(c)) = NamesOf(c.required) \ c.approved
  BY <1>1, WithoutWorks DEF StillPending
<1> DEFINE p == StillPending(c)
<1>3. ToSet(p) = NamesOf(c.required) \ c.approved
  BY <1>2, NamedIsSet
<1> HIDE DEF p
<1>4. p \in Seq(AdviceOffices) /\ NamesOf(p) = NamesOf(c.required) \ c.approved
  BY <1>2 DEF p
<1>5. p = <<>> <=> NamesOf(p) = {}
  <2>1. Len(p) \in Nat /\ (p = <<>> <=> Len(p) = 0)
    BY <1>4
  <2>2. Len(p) # 0 => p[1] \in NamesOf(p)
    BY <2>1 DEF NamesOf
  <2>3. Len(p) = 0 => NamesOf(p) = {}
    BY DEF NamesOf
  <2> QED BY <2>1, <2>2, <2>3
<1>6. p # <<>> => Head(p) \in NamesOf(p)
  <2>1. p # <<>> => Len(p) \in Nat \ {0} /\ Head(p) = p[1]
    BY <1>4
  <2> QED BY <2>1 DEF NamesOf
<1> QED BY <1>3, <1>4, <1>5, <1>6 DEF p

(* Approval goes to the offices that are left, or lets the contract sign.  *)
LEMMA Approves ==
    ASSUME NEW c \in ContractTypes, KeepsOffices(c)
    PROVE  LET d == AfterApproval(c)
           IN  /\ Sound(d)
               /\ d.state = IF StillPending(d) # <<>> THEN "escalated" ELSE "ready_to_sign"
               /\ d.value = c.value /\ d.open = c.open /\ d.approved = c.approved
               /\ d.status = c.status /\ d.owned = c.owned /\ d.asked = c.asked
<1> DEFINE r == IF ruled THEN c ELSE [c EXCEPT !.required = Once(c.escalated)]
           s == IF StillPending(r) # <<>> THEN "escalated" ELSE "ready_to_sign"
           d == To(r, s)
<1>1. AfterApproval(c) = d
  BY DEF AfterApproval
<1>2. /\ r \in ContractTypes /\ KeepsOffices(r) /\ r.escalated = c.escalated
      /\ r.value = c.value /\ r.open = c.open /\ r.approved = c.approved
      /\ r.status = c.status /\ r.owned = c.owned /\ r.asked = c.asked
  <2>1. CASE ruled
    BY <2>1
  <2>2. CASE ~ruled
    <3> DEFINE q == Once(c.escalated)
    <3>1. q \in Seq(AdviceOffices) /\ NamesOf(q) = NamesOf(c.escalated)
      <4>1. c.escalated \in Seq(AdviceOffices)
        BY DEF ContractTypes
      <4> QED BY <4>1, OnceWorks
    <3>2. r = [c EXCEPT !.required = q]
      BY <2>2
    <3> HIDE DEF q, r
    <3>3. r \in ContractTypes /\ r.required = q /\ r.escalated = c.escalated
      BY <3>1, <3>2 DEF ContractTypes
    <3>4. /\ r.value = c.value /\ r.open = c.open /\ r.approved = c.approved
          /\ r.status = c.status /\ r.owned = c.owned /\ r.asked = c.asked
      BY <3>2 DEF ContractTypes
    <3> QED BY <3>1, <3>3, <3>4 DEF KeepsOffices
  <2> QED BY <2>1, <2>2
<1> HIDE DEF r
<1>3. s \in States /\ (s = "ready_to_sign" => NamesOf(r.escalated) \subseteq r.approved)
  <2>1. s \in States
    BY DEF States, OpenStates
  <2>2. s = "ready_to_sign" => StillPending(r) = <<>>
    OBVIOUS
  <2>3. StillPending(r) = <<>> => NamesOf(r.escalated) \subseteq r.approved
    BY <1>2, PendingIs DEF KeepsOffices
  <2> QED BY <2>1, <2>2, <2>3
<1>4. s = IF StillPending(r) # <<>> THEN "escalated" ELSE "ready_to_sign"
  OBVIOUS
<1> HIDE DEF s
<1>5. /\ d \in ContractTypes /\ KeepsOffices(d) /\ d.state = s
      /\ d.value = r.value /\ d.open = r.open /\ d.approved = r.approved
      /\ d.status = r.status /\ d.owned = r.owned /\ d.asked = r.asked
      /\ d.required = r.required /\ d.escalated = r.escalated
  BY <1>2, <1>3, Enters
<1> HIDE DEF d
<1>6. StillPending(d) = StillPending(r)
  BY <1>5 DEF StillPending
<1>7. Signable(d)
  BY <1>3, <1>4, <1>5 DEF Signable
<1> QED BY <1>1, <1>2, <1>4, <1>5, <1>6, <1>7 DEF Sound

(* Actions of a person that open no other state.                           *)
Chosen == {"office_approve", "ask_pi", "pi_answered", "comment", "assign"}

(* Actions that may move the contract.                                     *)
Moves == {"approve", "send_back", "escalate",
                  "reject", "send_for_signature", "mark_signed", "activate", "close", "reopen"}

(* These are all the actions.                                              *)
LEMMA ActionsAre ==
    /\ Actions = Chosen \cup Moves
    /\ FromStates.assign = OpenStates \cup {"signed", "active"}
    /\ FromStates.office_approve = AllowedFrom.approve
    /\ \A a \in Moves : FromStates[a] = AllowedFrom[a]
<1> DEFINE others == [office_approve |-> AllowedFrom.approve, ask_pi |-> PiStates, pi_answered |-> PiStates,
                   comment |-> States, assign |-> OpenStates \cup {"signed", "active"}]
<1>1. DOMAIN others = Chosen
  BY DEF Chosen
<1>2. DOMAIN AllowedFrom = Moves
  BY DEF Moves, AllowedFrom
<1>3. others.assign = OpenStates \cup {"signed", "active"} /\ others.office_approve = AllowedFrom.approve
  OBVIOUS
<1>4. FromStates = [a \in DOMAIN others \cup DOMAIN AllowedFrom |->
            IF a \in DOMAIN others THEN others[a] ELSE AllowedFrom[a]]
  BY DEF FromStates
<1> HIDE DEF others
<1>5. FromStates = [a \in Chosen \cup Moves |-> IF a \in Chosen THEN others[a] ELSE AllowedFrom[a]]
  BY <1>1, <1>2, <1>4
<1>6. Chosen \cap Moves = {}
  BY DEF Chosen, Moves
<1>7. "assign" \in Chosen /\ "office_approve" \in Chosen
  BY DEF Chosen
<1> QED BY <1>3, <1>5, <1>6, <1>7 DEF Actions

(* The PI request an action clears.                                        *)
LEMMA Clears ==
    ASSUME NEW b, Sound(b), NEW a
    PROVE  LET c == [b EXCEPT !.asked = @ /\ a \notin ClearsRequest]
           IN  /\ Sound(c) /\ c.state = b.state /\ c.value = b.value /\ c.open = b.open /\ c.approved = b.approved
               /\ c.escalated = b.escalated /\ c.required = b.required /\ c.draft = b.draft
               /\ c.status = b.status /\ c.owned = b.owned
               /\ c.asked = (b.asked /\ a \notin ClearsRequest)
<1> DEFINE x == b.asked /\ a \notin ClearsRequest
           c == [b EXCEPT !.asked = x]
<1>1. x \in BOOLEAN
  OBVIOUS
<1>2. b \in ContractTypes
  BY DEF Sound
<1>3. x = (b.asked /\ a \notin ClearsRequest)
  OBVIOUS
<1> HIDE DEF x
<1>4. c \in ContractTypes /\ c.asked = x
  BY <1>1, <1>2 DEF ContractTypes
<1>5. /\ c.state = b.state /\ c.value = b.value /\ c.open = b.open /\ c.approved = b.approved
      /\ c.escalated = b.escalated /\ c.required = b.required /\ c.draft = b.draft
      /\ c.status = b.status /\ c.owned = b.owned
  BY <1>2 DEF ContractTypes
<1>6. KeepsOffices(c) /\ Signable(c)
  BY <1>5 DEF Sound, KeepsOffices, Signable
<1>7. Sound(c)
  BY <1>4, <1>6 DEF Sound
<1> HIDE DEF c
<1>8. c.asked = (b.asked /\ a \notin ClearsRequest)
  BY <1>3, <1>4
<1> QED BY <1>5, <1>7, <1>8 DEF c, x

(* After an approval by whoever reviews.                                   *)
LEMMA AfterApprove ==
    ASSUME NEW b, Sound(b), NEW o
    PROVE  LET d == After(b, "approve", o)
           IN  /\ Sound(d)
               /\ d.state = IF StillPending(d) # <<>> THEN "escalated" ELSE "ready_to_sign"
               /\ d.value = b.value /\ d.open = b.open /\ d.approved = b.approved
               /\ d.status = b.status /\ d.owned = b.owned /\ d.asked = FALSE
<1> DEFINE c == [b EXCEPT !.asked = @ /\ "approve" \notin ClearsRequest]
<1>1. /\ Sound(c) /\ c.value = b.value /\ c.open = b.open /\ c.approved = b.approved
      /\ c.status = b.status /\ c.owned = b.owned /\ c.asked = FALSE
  <2> HIDE DEF c
  <2>1. /\ Sound(c) /\ c.value = b.value /\ c.open = b.open /\ c.approved = b.approved
        /\ c.status = b.status /\ c.owned = b.owned /\ c.asked = (b.asked /\ "approve" \notin ClearsRequest)
    BY Clears DEF c
  <2>2. "approve" \in ClearsRequest
    BY DEF ClearsRequest
  <2> QED BY <2>1, <2>2
<1>2. After(b, "approve", o) = AfterApproval(c)
  BY DEF After
<1> HIDE DEF c
<1> QED BY <1>1, <1>2, Approves DEF Sound

(* After the approval of an office.                                        *)
LEMMA AfterOfficeApprove ==
    ASSUME NEW b, Sound(b), NEW o \in AdviceOffices
    PROVE  LET d == After(b, "office_approve", o)
           IN  /\ Sound(d)
               /\ d.state = IF StillPending(d) # <<>> THEN "escalated" ELSE "ready_to_sign"
               /\ d.value = b.value /\ d.open = b.open /\ d.approved = b.approved \cup {o}
               /\ d.status = b.status /\ d.owned = b.owned /\ d.asked = FALSE
<1> DEFINE c == [b EXCEPT !.asked = @ /\ "office_approve" \notin ClearsRequest]
           e == [c EXCEPT !.approved = @ \cup {o}]
<1>1. /\ Sound(c) /\ c.value = b.value /\ c.open = b.open /\ c.approved = b.approved
      /\ c.status = b.status /\ c.owned = b.owned /\ c.asked = FALSE
  <2> HIDE DEF c
  <2>1. /\ Sound(c) /\ c.value = b.value /\ c.open = b.open /\ c.approved = b.approved
        /\ c.status = b.status /\ c.owned = b.owned /\ c.asked = (b.asked /\ "office_approve" \notin ClearsRequest)
    BY Clears DEF c
  <2>2. "office_approve" \in ClearsRequest
    BY DEF ClearsRequest
  <2> QED BY <2>1, <2>2
<1>2. After(b, "office_approve", o) = AfterApproval(e)
  BY DEF After
<1> HIDE DEF c
<1>3. c \in ContractTypes /\ KeepsOffices(c)
  BY <1>1 DEF Sound
<1>4. /\ e \in ContractTypes /\ e.approved = c.approved \cup {o}
      /\ e.value = c.value /\ e.open = c.open /\ e.status = c.status /\ e.owned = c.owned /\ e.asked = c.asked
      /\ e.escalated = c.escalated /\ e.required = c.required
  BY <1>3 DEF ContractTypes
<1> HIDE DEF e
<1>5. KeepsOffices(e)
  BY <1>3, <1>4 DEF KeepsOffices
<1> QED BY <1>1, <1>2, <1>4, <1>5, Approves

(* After the contract is sent back.                                        *)
LEMMA AfterSendBack ==
    ASSUME NEW b, Sound(b), NEW o
    PROVE  LET d == After(b, "send_back", o)
           IN  /\ Sound(d) /\ d.state = "sent_back"
               /\ d.value = b.value /\ d.open = b.open
               /\ d.status = b.status /\ d.owned = b.owned /\ d.asked = FALSE
<1> DEFINE c == [b EXCEPT !.asked = @ /\ "send_back" \notin ClearsRequest]
           e == [c EXCEPT !.approved = {}]
           d == To(e, "sent_back")
<1>1. /\ Sound(c) /\ c.value = b.value /\ c.open = b.open
      /\ c.status = b.status /\ c.owned = b.owned /\ c.asked = FALSE
  <2> HIDE DEF c
  <2>1. /\ Sound(c) /\ c.value = b.value /\ c.open = b.open
        /\ c.status = b.status /\ c.owned = b.owned /\ c.asked = (b.asked /\ "send_back" \notin ClearsRequest)
    BY Clears DEF c
  <2>2. "send_back" \in ClearsRequest
    BY DEF ClearsRequest
  <2> QED BY <2>1, <2>2
<1>2. After(b, "send_back", o) = d
  BY DEF After
<1> HIDE DEF c
<1>3. c \in ContractTypes /\ KeepsOffices(c)
  BY <1>1 DEF Sound
<1>4. /\ e \in ContractTypes
      /\ e.value = c.value /\ e.open = c.open /\ e.status = c.status /\ e.owned = c.owned /\ e.asked = c.asked
      /\ e.escalated = c.escalated /\ e.required = c.required
  BY <1>3 DEF ContractTypes
<1> HIDE DEF e
<1>5. KeepsOffices(e)
  BY <1>3, <1>4 DEF KeepsOffices
<1>6. /\ d \in ContractTypes /\ KeepsOffices(d) /\ d.state = "sent_back"
      /\ d.value = e.value /\ d.open = e.open /\ d.status = e.status /\ d.owned = e.owned /\ d.asked = e.asked
  BY <1>4, <1>5, Enters DEF States, OpenStates
<1> HIDE DEF d
<1>7. Signable(d)
  BY <1>6 DEF Signable
<1> QED BY <1>1, <1>2, <1>4, <1>6, <1>7 DEF Sound

(* After an escalation to an office.                                       *)
LEMMA AfterEscalate ==
    ASSUME NEW b, Sound(b), NEW o \in AdviceOffices
    PROVE  LET d == After(b, "escalate", o)
           IN  /\ Sound(d) /\ d.state = "escalated" /\ o \in NamesOf(d.required)
               /\ d.value = b.value /\ d.open = b.open /\ d.approved = b.approved \ {o}
               /\ d.status = b.status /\ d.owned = b.owned /\ d.asked = FALSE
<1> DEFINE c == [b EXCEPT !.asked = @ /\ "escalate" \notin ClearsRequest]
           q == Once(c.escalated \o <<o>>)
           e == [c EXCEPT !.escalated = q, !.approved = @ \ {o}]
           r == Routed(e)
           d == To(r, "escalated")
<1>1. /\ Sound(c) /\ c.value = b.value /\ c.open = b.open /\ c.approved = b.approved
      /\ c.status = b.status /\ c.owned = b.owned /\ c.asked = FALSE
  <2> HIDE DEF c
  <2>1. /\ Sound(c) /\ c.value = b.value /\ c.open = b.open /\ c.approved = b.approved
        /\ c.status = b.status /\ c.owned = b.owned /\ c.asked = (b.asked /\ "escalate" \notin ClearsRequest)
    BY Clears DEF c
  <2>2. "escalate" \in ClearsRequest
    BY DEF ClearsRequest
  <2> QED BY <2>1, <2>2
<1>2. After(b, "escalate", o) = d
  BY DEF After
<1> HIDE DEF c
<1>3. c \in ContractTypes
  BY <1>1 DEF Sound
<1>4. q \in Seq(AdviceOffices) /\ o \in NamesOf(q)
  <2>1. c.escalated \in Seq(AdviceOffices) /\ <<o>> \in Seq(AdviceOffices) /\ NamesOf(<<o>>) = {o}
    <3>1. NamesOf(<<o>>) = {o}
      BY DEF NamesOf
    <3> QED BY <1>3, <3>1 DEF ContractTypes
  <2>2. c.escalated \o <<o>> \in Seq(AdviceOffices) /\ o \in NamesOf(c.escalated \o <<o>>)
    <3> DEFINE t == c.escalated
               one == <<o>>
    <3>1. t \in Seq(AdviceOffices) /\ one \in Seq(AdviceOffices) /\ o \in NamesOf(one)
      BY <2>1
    <3> HIDE DEF t, one
    <3>2. t \o one \in Seq(AdviceOffices) /\ o \in NamesOf(t \o one)
      BY <3>1, NamedConcat
    <3> QED BY <3>2 DEF t, one
  <2> QED BY <2>2, OnceWorks
<1> HIDE DEF q
<1>5. /\ e \in ContractTypes /\ e.approved = c.approved \ {o} /\ e.escalated = q
      /\ e.value = c.value /\ e.open = c.open /\ e.status = c.status /\ e.owned = c.owned /\ e.asked = c.asked
  BY <1>3, <1>4 DEF ContractTypes
<1> HIDE DEF e
<1>6. /\ r \in ContractTypes /\ KeepsOffices(r) /\ r.approved = e.approved
      /\ r.value = e.value /\ r.open = e.open /\ r.status = e.status /\ r.owned = e.owned /\ r.asked = e.asked
      /\ NamesOf(q) \subseteq NamesOf(r.required)
  BY <1>5, Routes
<1> HIDE DEF r
<1>7. /\ d \in ContractTypes /\ KeepsOffices(d) /\ d.state = "escalated" /\ d.required = r.required /\ d.approved = r.approved
      /\ d.value = r.value /\ d.open = r.open /\ d.status = r.status /\ d.owned = r.owned /\ d.asked = r.asked
  BY <1>6, Enters DEF States, OpenStates
<1> HIDE DEF d
<1>8. Signable(d)
  BY <1>7 DEF Signable
<1> QED BY <1>1, <1>2, <1>4, <1>5, <1>6, <1>7, <1>8 DEF Sound

(* Actions with one outcome.                                               *)
Plain == {"reject", "send_for_signature", "mark_signed", "activate", "close", "reopen"}

(* Where the other moves lead.                                             *)
PlainState == [reject |-> "rejected", send_for_signature |-> "out_for_signature", mark_signed |-> "signed",
               activate |-> "active", close |-> "closed", reopen |-> "in_review"]

(* After one of those.                                                     *)
LEMMA AfterPlain ==
    ASSUME NEW b, Sound(b), NEW o, NEW a \in Plain, a = "send_for_signature" => b.state = "ready_to_sign"
    PROVE  LET d == After(b, a, o)
           IN  /\ Sound(d) /\ d.state = PlainState[a]
               /\ d.value = b.value /\ d.open = b.open
               /\ d.status = b.status /\ d.owned = b.owned /\ d.asked = (b.asked /\ a \notin ClearsRequest)
<1> DEFINE c == [b EXCEPT !.asked = @ /\ a \notin ClearsRequest]
           s == PlainState[a]
           d == To(c, s)
<1>1. /\ Sound(c) /\ c.state = b.state /\ c.value = b.value /\ c.open = b.open
      /\ c.status = b.status /\ c.owned = b.owned /\ c.asked = (b.asked /\ a \notin ClearsRequest)
  BY Clears
<1>2. (CHOOSE x \in StatesAfter[a] : TRUE) = s
  <2>1. StatesAfter[a] = {s}
    BY DEF Plain, StatesAfter, PlainState
  <2> QED BY <2>1
<1>3. After(b, a, o) = d
  <2>1. After(b, a, o) = To(c, CHOOSE x \in StatesAfter[a] : TRUE)
    BY DEF After, Plain
  <2> QED BY <1>2, <2>1
<1>4. s \in States /\ s # "ready_to_sign" /\ (s = "out_for_signature" => a = "send_for_signature")
  BY DEF Plain, PlainState, States, OpenStates, TerminalStates
<1> HIDE DEF c, s
<1>5. /\ d \in ContractTypes /\ KeepsOffices(d) /\ d.state = s /\ d.approved = c.approved /\ d.escalated = c.escalated
      /\ d.value = c.value /\ d.open = c.open /\ d.status = c.status /\ d.owned = c.owned /\ d.asked = c.asked
  BY <1>1, <1>4, Enters DEF Sound
<1> HIDE DEF d
<1>6. Signable(d)
  BY <1>1, <1>4, <1>5 DEF Signable, Sound
<1>7. d.state = PlainState[a]
  BY <1>5 DEF s
<1> QED BY <1>1, <1>3, <1>5, <1>6, <1>7 DEF Sound

(* Actions that move a contract at most from intake.                       *)
LEMMA AfterAssign ==
    ASSUME NEW b, Sound(b), NEW o
    PROVE  LET d == After(b, "assign", o)
           IN  /\ Sound(d) /\ d.state \in {b.state, "in_review"}
               /\ d.owned = TRUE /\ d.open = b.open /\ d.status = b.status /\ d.asked = b.asked
<1> DEFINE c == [b EXCEPT !.asked = @ /\ "assign" \notin ClearsRequest]
           e == [c EXCEPT !.owned = TRUE]
           d == IF c.state = "intake" /\ ~c.draft THEN To(e, "in_review") ELSE e
<1>1. /\ Sound(c) /\ c.state = b.state /\ c.value = b.value /\ c.open = b.open
      /\ c.status = b.status /\ c.owned = b.owned /\ c.asked = b.asked
  <2>1. "assign" \notin ClearsRequest /\ b.asked \in BOOLEAN
    BY DEF ClearsRequest, Sound, ContractTypes
  <2> HIDE DEF c
  <2>2. /\ Sound(c) /\ c.state = b.state /\ c.value = b.value /\ c.open = b.open
        /\ c.status = b.status /\ c.owned = b.owned /\ c.asked = (b.asked /\ "assign" \notin ClearsRequest)
    BY Clears DEF c
  <2> QED BY <2>1, <2>2
<1>2. After(b, "assign", o) = d
  BY DEF After
<1> HIDE DEF c
<1>3. c \in ContractTypes
  BY <1>1 DEF Sound
<1>4. /\ e \in ContractTypes /\ e.owned = TRUE /\ e.approved = c.approved /\ e.escalated = c.escalated
      /\ e.required = c.required /\ e.state = c.state
      /\ e.value = c.value /\ e.open = c.open /\ e.status = c.status /\ e.asked = c.asked
  BY <1>3 DEF ContractTypes
<1> HIDE DEF e
<1>5. KeepsOffices(e) /\ Signable(e)
  BY <1>1, <1>4 DEF KeepsOffices, Signable, Sound
<1>6. CASE c.state = "intake" /\ ~c.draft
  <2>1. d = To(e, "in_review")
    BY <1>6
  <2> HIDE DEF d
  <2>2. /\ d \in ContractTypes /\ KeepsOffices(d) /\ d.state = "in_review"
        /\ d.open = e.open /\ d.status = e.status /\ d.owned = e.owned /\ d.asked = e.asked
    BY <1>4, <1>5, <2>1, Enters DEF States, OpenStates
  <2> QED BY <1>1, <1>2, <1>4, <2>2 DEF Sound, Signable
<1>7. CASE ~(c.state = "intake" /\ ~c.draft)
  <2>1. d = e
    BY <1>7
  <2> HIDE DEF d
  <2> QED BY <1>1, <1>2, <1>4, <1>5, <2>1 DEF Sound
<1> QED BY <1>6, <1>7

(* After a question, its answer or a comment.                              *)
LEMMA AfterWord ==
    ASSUME NEW b, Sound(b), NEW o, NEW a \in {"ask_pi", "pi_answered", "comment"}
    PROVE  Sound(After(b, a, o))
<1> DEFINE c == [b EXCEPT !.asked = @ /\ a \notin ClearsRequest]
<1>1. Sound(c)
  BY Clears
<1> DEFINE yes == [c EXCEPT !.asked = TRUE]
           no == [c EXCEPT !.asked = FALSE]
<1>2. After(b, a, o) \in {c, yes, no}
  BY DEF After
<1> HIDE DEF c
<1>3. c \in ContractTypes
  BY <1>1 DEF Sound
<1>4. /\ yes \in ContractTypes /\ yes.approved = c.approved /\ yes.escalated = c.escalated
      /\ yes.required = c.required /\ yes.state = c.state
  BY <1>3 DEF ContractTypes
<1>5. /\ no \in ContractTypes /\ no.approved = c.approved /\ no.escalated = c.escalated
      /\ no.required = c.required /\ no.state = c.state
  BY <1>3 DEF ContractTypes
<1> HIDE DEF yes, no
<1>6. Sound(yes) /\ Sound(no)
  BY <1>1, <1>4, <1>5 DEF Sound, KeepsOffices, Signable
<1> QED BY <1>1, <1>2, <1>6

(* Whatever is done from where it may be done leaves the contract sound.   *)
LEMMA AfterIsSound ==
    ASSUME NEW b, Sound(b), NEW a \in Actions, Accepts(b, a), NEW o,
           a \in {"office_approve", "escalate"} => o \in AdviceOffices
    PROVE  Sound(After(b, a, o))
<1>1. CASE a = "approve"
  BY <1>1, AfterApprove
<1>2. CASE a = "office_approve"
  BY <1>2, AfterOfficeApprove
<1>3. CASE a = "send_back"
  BY <1>3, AfterSendBack
<1>4. CASE a = "escalate"
  BY <1>4, AfterEscalate
<1>5. CASE a \in Plain
  <2>1. a = "send_for_signature" => b.state = "ready_to_sign"
    BY ActionsAre DEF Accepts, Moves, AllowedFrom
  <2> QED BY <1>5, <2>1, AfterPlain
<1>6. CASE a = "assign"
  BY <1>6, AfterAssign
<1>7. CASE a \in {"ask_pi", "pi_answered", "comment"}
  BY <1>7, AfterWord
<1> QED BY <1>1, <1>2, <1>3, <1>4, <1>5, <1>6, <1>7, ActionsAre DEF Chosen, Moves, Plain

(* Every step of the review keeps the invariant.                           *)
LEMMA AdviceStep == AdviceInv /\ [AdviceNext]_adviceVars => AdviceInv'
<1> SUFFICES ASSUME AdviceInv, [AdviceNext]_adviceVars PROVE AdviceInv'
  OBVIOUS
<1>0. Sound(contract) /\ contract \in ContractTypes /\ ruled \in BOOLEAN /\ post \in AdviceOffices \cup {NoOffice}
  BY DEF AdviceInv, Sound
<1>1. ASSUME NEW a \in Actions, NEW o \in AdviceOffices \cup {NoOffice}, EditorActs(a, o) PROVE AdviceInv'
  <2>1. Accepts(contract, a) /\ (a \in {"office_approve", "escalate"} => o \in AdviceOffices)
    BY <1>1 DEF EditorActs, Offered
  <2>2. contract' = After(contract, a, o) /\ UNCHANGED <<ruled, post>>
    BY <1>1 DEF EditorActs, Perform
  <2>3. PICK d : d = After(contract, a, o)
    OBVIOUS
  <2>4. Sound(d)
    BY <1>0, <2>1, <2>3, AfterIsSound
  <2>5. contract' = d
    BY <2>2, <2>3
  <2> QED BY <1>0, <2>2, <2>4, <2>5 DEF AdviceInv, Sound, KeepsOffices, Signable
<1>2. ASSUME NEW o \in AdviceOffices, ApproverAsks(o) PROVE AdviceInv'
  BY <1>0, <1>2 DEF ApproverAsks, AdviceInv, Sound, KeepsOffices, Signable
<1>3. ASSUME ApproverActs PROVE AdviceInv'
  <2>1. CASE Accepts(contract, "office_approve")
    <3>1. contract' = After(contract, "office_approve", post) /\ post' = NoOffice /\ ruled' = ruled /\ post \in AdviceOffices
      BY <1>0, <1>3, <2>1 DEF ApproverActs, Perform
    <3>2. PICK d : d = After(contract, "office_approve", post)
      OBVIOUS
    <3>3. "office_approve" \in Actions
      BY ActionsAre DEF Chosen
    <3>4. Sound(d)
      BY <1>0, <2>1, <3>1, <3>2, <3>3, AfterIsSound
    <3>5. contract' = d
      BY <3>1, <3>2
    <3> QED BY <1>0, <3>1, <3>4, <3>5 DEF AdviceInv, Sound, KeepsOffices, Signable
  <2>2. CASE ~Accepts(contract, "office_approve")
    <3>1. contract' = contract /\ post' = NoOffice /\ ruled' = ruled
      BY <1>3, <2>2 DEF ApproverActs
    <3> QED BY <1>0, <3>1 DEF AdviceInv, Sound, KeepsOffices, Signable
  <2> QED BY <2>1, <2>2
<1>4. ASSUME NEW v \in Values, GiveValue(v) PROVE AdviceInv'
  <2> DEFINE c == [contract EXCEPT !.value = v]
  <2>1. c \in ContractTypes /\ c.state = contract.state /\ c.escalated = contract.escalated /\ c.approved = contract.approved
    BY <1>0 DEF ContractTypes
  <2>2. contract' = Routed(c) /\ UNCHANGED <<ruled, post>>
    BY <1>4 DEF GiveValue
  <2> HIDE DEF c
  <2>3. PICK d : d = Routed(c)
    OBVIOUS
  <2>4. Signable(c)
    BY <1>0, <2>1 DEF Sound, Signable
  <2>5. Sound(d)
    BY <2>1, <2>3, <2>4, Routes DEF Sound
  <2>6. contract' = d
    BY <2>2, <2>3
  <2> QED BY <1>0, <2>2, <2>5, <2>6 DEF AdviceInv, Sound, KeepsOffices, Signable
<1>5. ASSUME NEW i \in AdviceItems, EditItem(i) PROVE AdviceInv'
  <2>1. PICK x \in SUBSET AdviceItems : contract' = [contract EXCEPT !.open = x]
    <3>1. contract.open \in SUBSET AdviceItems
      BY <1>0 DEF ContractTypes
    <3>2. contract' = [contract EXCEPT !.open = IF i \in contract.open THEN contract.open \ {i} ELSE contract.open \cup {i}]
      BY <1>5 DEF EditItem
    <3>3. (IF i \in contract.open THEN contract.open \ {i} ELSE contract.open \cup {i}) \in SUBSET AdviceItems
      BY <3>1
    <3> QED BY <3>2, <3>3
  <2>2. PICK d : d = [contract EXCEPT !.open = x]
    OBVIOUS
  <2>3. d \in ContractTypes /\ d.state = contract.state /\ d.escalated = contract.escalated
        /\ d.approved = contract.approved /\ d.required = contract.required
    BY <1>0, <2>2 DEF ContractTypes
  <2>4. contract' = d /\ UNCHANGED <<ruled, post>>
    BY <1>5, <2>1, <2>2 DEF EditItem
  <2> QED BY <1>0, <2>3, <2>4 DEF AdviceInv, Sound, KeepsOffices, Signable
<1>6. ASSUME NEW s \in Failed \cup {"PROCESSING", "READY"}, Analysed(s) PROVE AdviceInv'
  <2>1. PICK d : d = [contract EXCEPT !.status = s]
    OBVIOUS
  <2>2. d \in ContractTypes /\ d.state = contract.state /\ d.escalated = contract.escalated
        /\ d.approved = contract.approved /\ d.required = contract.required
    BY <1>0, <2>1 DEF ContractTypes, DocStatuses
  <2>3. contract' = d /\ UNCHANGED <<ruled, post>>
    BY <1>6, <2>1 DEF Analysed
  <2> QED BY <1>0, <2>2, <2>3 DEF AdviceInv, Sound, KeepsOffices, Signable
<1>7. ASSUME NEW revised \in BOOLEAN, NEW owned \in BOOLEAN, NEW items \in SUBSET AdviceItems, NEW k \in Kinds,
             Regrade(revised, items, k, owned)
      PROVE AdviceInv'
  <2> DEFINE x == IF revised THEN {} ELSE contract.approved
             e == [contract EXCEPT !.open = items, !.kind = k, !.owned = owned, !.approved = x]
             c == Routed(e)
             review == IF owned THEN "in_review" ELSE "intake"
             d == To(c, review)
             moves == \/ revised /\ c.state \notin {"signed", "active", "closed"}
                      \/ ~revised /\ c.state = "intake"
  <2>1. contract' = (IF moves THEN d ELSE c) /\ UNCHANGED <<ruled, post>>
    BY <1>7 DEF Regrade
  <2>2. x \in SUBSET AdviceOffices
    BY <1>0 DEF ContractTypes
  <2>3. ~revised => x = contract.approved
    OBVIOUS
  <2>4. review \in {"in_review", "intake"} /\ review \in States
    BY DEF States, OpenStates
  <2> HIDE DEF x, review
  <2>5. e \in ContractTypes /\ e.state = contract.state /\ e.escalated = contract.escalated /\ e.approved = x
    BY <1>0, <2>2 DEF ContractTypes
  <2> HIDE DEF e
  <2>6. PICK y : y = c
    OBVIOUS
  <2>7. y \in ContractTypes /\ KeepsOffices(y) /\ y.state = e.state /\ y.escalated = e.escalated /\ y.approved = e.approved
    BY <2>5, <2>6, Routes
  <2>8. CASE moves
    <3>1. PICK z : z = To(y, review)
      OBVIOUS
    <3>2. z \in ContractTypes /\ KeepsOffices(z) /\ z.state = review
      BY <2>4, <2>7, <3>1, Enters
    <3>3. Sound(z)
      BY <2>4, <3>2 DEF Sound, Signable
    <3>4. contract' = z
      BY <2>1, <2>6, <2>8, <3>1
    <3> QED BY <1>0, <2>1, <3>3, <3>4 DEF AdviceInv, Sound, KeepsOffices, Signable
  <2>9. CASE ~moves
    <3>1. contract' = y
      BY <2>1, <2>6, <2>9
    <3>2. revised => y.state \in {"signed", "active", "closed"}
      BY <2>6, <2>9
    <3> HIDE DEF c, moves, d
    <3>3. Signable(y)
      BY <1>0, <2>3, <2>5, <2>7, <3>2 DEF Signable, Sound
    <3> QED BY <1>0, <2>1, <2>7, <3>1, <3>3 DEF AdviceInv, Sound, KeepsOffices, Signable
  <2> QED BY <2>8, <2>9
<1>8. ASSUME CancelSigning PROVE AdviceInv'
  <2>1. PICK d : d = To(contract, "ready_to_sign")
    OBVIOUS
  <2>2. d \in ContractTypes /\ KeepsOffices(d) /\ d.state = "ready_to_sign" /\ d.escalated = contract.escalated /\ d.approved = contract.approved
    BY <1>0, <2>1, Enters DEF States, OpenStates, Sound
  <2>3. contract.state = "out_for_signature" /\ contract' = d /\ UNCHANGED <<ruled, post>>
    BY <1>8, <2>1 DEF CancelSigning
  <2>4. Signable(d)
    BY <1>0, <2>2, <2>3 DEF Sound, Signable
  <2> QED BY <1>0, <2>2, <2>3, <2>4 DEF AdviceInv, Sound, KeepsOffices, Signable
<1>9. ASSUME SwitchRules PROVE AdviceInv'
  BY <1>0, <1>9 DEF SwitchRules, AdviceInv, Sound, KeepsOffices, Signable
<1>10. ASSUME UNCHANGED adviceVars PROVE AdviceInv'
  BY <1>0, <1>10 DEF adviceVars, AdviceInv, Sound, KeepsOffices, Signable
<1> QED BY <1>1, <1>2, <1>3, <1>4, <1>5, <1>6, <1>7, <1>8, <1>9, <1>10 DEF AdviceNext

(* Where no open item is unacceptable.                                     *)
LEMMA NothingHard ==
    ASSUME NEW c, c.open \cap HardItems = {}, Unseen(c, c.open) # {}
    PROVE  ItemStep(c) = LET i == FirstItem(Unseen(c, c.open)) IN OfficeStep(c, OfficeOf[i], SameOffice(i, c.open))
<1>1. Unseen(c, {}) = {}
  BY DEF Unseen
<1> QED BY <1>1 DEF ItemStep

(* Where an unacceptable one has not been seen by its office.              *)
LEMMA SomeHard ==
    ASSUME NEW c, Unseen(c, c.open \cap HardItems) # {}
    PROVE  LET hard == c.open \cap HardItems
           IN  ItemStep(c) = LET i == FirstItem(Unseen(c, hard)) IN OfficeStep(c, OfficeOf[i], SameOffice(i, hard))
<1>1. c.open \cap HardItems # {}
  BY DEF Unseen
<1> QED BY <1>1 DEF ItemStep

(* What is advised of open items.                                          *)
LEMMA ItemAdvice ==
    ASSUME NEW c \in ContractTypes, c.open # {}
    PROVE  \/ /\ ItemStep(c).action = "wait" /\ c.state = "escalated"
              /\ NamesOf(c.required) \ c.approved # {}
           \/ /\ ItemStep(c).action \in {"wait", "send_back"} /\ ItemStep(c).office = NoOffice
              /\ ItemStep(c).action = "wait" <=> c.state = "sent_back"
           \/ ItemStep(c).action = "reject" /\ ItemStep(c).office = NoOffice
           \/ /\ ItemStep(c).action = "escalate"
              /\ ItemStep(c).office \in AdviceOffices \ c.approved
<1> DEFINE hard == c.open \cap HardItems
<1>1. ASSUME NEW items, items \subseteq c.open, Unseen(c, items) # {}
      PROVE  LET i == FirstItem(Unseen(c, items))
                 s == OfficeStep(c, OfficeOf[i], SameOffice(i, items))
             IN  \/ s.action = "wait" /\ c.state = "escalated" /\ NamesOf(c.required) \ c.approved # {}
                 \/ s.action = "escalate" /\ s.office \in AdviceOffices \ c.approved
  <2> DEFINE i == FirstItem(Unseen(c, items))
             o == OfficeOf[i]
             s == OfficeStep(c, o, SameOffice(i, items))
  <2>1. i \in Unseen(c, items)
    BY <1>1 DEF FirstItem
  <2>2. o \in AdviceOffices \ c.approved
    BY <1>1, <2>1, AdviceAssumption DEF Unseen, ContractTypes
  <2> HIDE DEF i, o
  <2>3. ToSet(c.required) = NamesOf(c.required)
    BY NamedIsSet DEF ContractTypes
  <2>4. CASE o \in NamesOf(c.required) /\ c.state = "escalated"
    <3>1. s.action = "wait"
      BY <2>3, <2>4 DEF OfficeStep, Advice
    <3> QED BY <2>2, <2>4, <3>1 DEF i, o
  <2>5. CASE ~(o \in NamesOf(c.required) /\ c.state = "escalated")
    <3>1. s.action = "escalate" /\ s.office = o
      BY <2>3, <2>5 DEF OfficeStep, Advice
    <3> QED BY <2>2, <3>1 DEF i, o
  <2> QED BY <2>4, <2>5
<1>2. CASE Unseen(c, hard) # {}
  <2>1. ItemStep(c) = LET i == FirstItem(Unseen(c, hard)) IN OfficeStep(c, OfficeOf[i], SameOffice(i, hard))
    BY <1>2, SomeHard
  <2> QED BY <1>1, <1>2, <2>1
<1>3. CASE Unseen(c, hard) = {} /\ hard # {}
  <2>1. ItemStep(c) = Advice("reject", NoOffice, hard)
    BY <1>3 DEF ItemStep
  <2> QED BY <2>1 DEF Advice
<1>4. CASE hard = {} /\ Unseen(c, c.open) # {}
  <2>1. ItemStep(c) = LET i == FirstItem(Unseen(c, c.open)) IN OfficeStep(c, OfficeOf[i], SameOffice(i, c.open))
    BY <1>4, NothingHard
  <2> QED BY <1>1, <1>4, <2>1
<1>5. CASE hard = {} /\ Unseen(c, c.open) = {}
  <2>0. Unseen(c, hard) = {}
    BY <1>5 DEF Unseen
  <2>1. ItemStep(c) = Advice(IF c.state = "sent_back" THEN "wait" ELSE "send_back", NoOffice, c.open)
    BY <1>5, <2>0 DEF ItemStep
  <2> QED BY <2>1 DEF Advice
<1> QED BY <1>2, <1>3, <1>4, <1>5

(* An escalation that is advised is followed by waiting for the office.    *)
LEMMA EscalationIsWaitedFor ==
    ASSUME NEW c \in ContractTypes, c.open # {}, ItemStep(c).action = "escalate",
           NEW d \in ContractTypes, d.open = c.open, d.state = "escalated",
           d.approved = c.approved, ItemStep(c).office \in NamesOf(d.required)
    PROVE  ItemStep(d).action = "wait"
<1> DEFINE hard == c.open \cap HardItems
<1>1. \A items : Unseen(d, items) = Unseen(c, items)
  BY DEF Unseen
<1>2. ToSet(d.required) = NamesOf(d.required)
  BY NamedIsSet DEF ContractTypes
<1>3. ASSUME NEW items, Unseen(c, items) # {},
             ItemStep(c) = LET i == FirstItem(Unseen(c, items)) IN OfficeStep(c, OfficeOf[i], SameOffice(i, items)),
             ItemStep(d) = LET i == FirstItem(Unseen(c, items)) IN OfficeStep(d, OfficeOf[i], SameOffice(i, items))
      PROVE  ItemStep(d).action = "wait"
  <2> DEFINE i == FirstItem(Unseen(c, items))
             o == OfficeOf[i]
             t == SameOffice(i, items)
  <2>0. ItemStep(c) = OfficeStep(c, o, t) /\ ItemStep(d) = OfficeStep(d, o, t)
    BY <1>3
  <2> HIDE DEF i, o, t
  <2>1. ItemStep(c).office = o
    BY <2>0 DEF OfficeStep, Advice
  <2> QED BY <1>2, <2>0, <2>1 DEF OfficeStep, Advice
<1>4. CASE Unseen(c, hard) # {}
  <2>1. ItemStep(c) = LET i == FirstItem(Unseen(c, hard)) IN OfficeStep(c, OfficeOf[i], SameOffice(i, hard))
    BY <1>4, SomeHard
  <2>2. ItemStep(d) = LET i == FirstItem(Unseen(c, hard)) IN OfficeStep(d, OfficeOf[i], SameOffice(i, hard))
    <3>1. Unseen(d, d.open \cap HardItems) # {} /\ d.open \cap HardItems = hard
      BY <1>1, <1>4
    <3>2. ItemStep(d) = LET i == FirstItem(Unseen(d, hard)) IN OfficeStep(d, OfficeOf[i], SameOffice(i, hard))
      BY <3>1, SomeHard
    <3> QED BY <1>1, <3>2
  <2> HIDE DEF hard
  <2> QED BY <1>3, <1>4, <2>1, <2>2
<1>5. CASE Unseen(c, hard) = {} /\ hard # {}
  <2>1. ItemStep(c) = Advice("reject", NoOffice, hard)
    BY <1>5 DEF ItemStep
  <2> QED BY <2>1 DEF Advice
<1>6. CASE hard = {} /\ Unseen(c, c.open) # {}
  <2>1. ItemStep(c) = LET i == FirstItem(Unseen(c, c.open)) IN OfficeStep(c, OfficeOf[i], SameOffice(i, c.open))
    BY <1>6, NothingHard
  <2>2. d.open \cap HardItems = {} /\ Unseen(d, d.open) # {}
    BY <1>1, <1>6
  <2>3. ItemStep(d) = LET i == FirstItem(Unseen(d, d.open)) IN OfficeStep(d, OfficeOf[i], SameOffice(i, d.open))
    BY <2>2, NothingHard
  <2>4. ItemStep(d) = LET i == FirstItem(Unseen(c, c.open)) IN OfficeStep(d, OfficeOf[i], SameOffice(i, c.open))
    BY <1>1, <2>3
  <2> QED BY <1>3, <1>6, <2>1, <2>4
<1>7. CASE hard = {} /\ Unseen(c, c.open) = {}
  <2>0. Unseen(c, hard) = {}
    BY <1>7 DEF Unseen
  <2>1. ItemStep(c) = Advice(IF c.state = "sent_back" THEN "wait" ELSE "send_back", NoOffice, c.open)
    BY <1>7, <2>0 DEF ItemStep
  <2> QED BY <2>1 DEF Advice
<1> QED BY <1>4, <1>5, <1>6, <1>7

(* What is advised when nothing is open.                                   *)
LEMMA CleanAdvice ==
    ASSUME NEW c \in ContractTypes
    PROVE  \/ CleanStep(c).action = "send_for_signature" /\ CleanStep(c).office = NoOffice /\ c.state = "ready_to_sign"
           \/ CleanStep(c).action = "wait" /\ c.state = "out_for_signature"
           \/ CleanStep(c).action = "add_value" /\ c.value = NoValue
           \/ /\ CleanStep(c).action = "approve" /\ c.state \notin {"ready_to_sign", "out_for_signature"}
              /\ c.value # NoValue
              /\ CleanStep(c).office = IF c.state = "escalated" /\ StillPending(c) # <<>>
                                       THEN Head(StillPending(c)) ELSE NoOffice
BY DEF CleanStep, Advice, Advise

(* Which step is the next.                                                 *)
LEMMA NextAdvice ==
    ASSUME NEW c \in ContractTypes
    PROVE  \/ NextStep(c).action = "none" /\ c.state \notin OpenStates
           \/ c.state \in OpenStates /\ NextStep(c).action = "analyze_anyway" /\ c.status = "not_agreement"
           \/ c.state \in OpenStates /\ NextStep(c).action = "reanalyze" /\ c.status = "FAILED"
           \/ c.state \in OpenStates /\ NextStep(c).action = "wait" /\ c.status = "PROCESSING"
           \/ /\ c.state \in OpenStates /\ c.status = "READY" /\ ~c.owned
              /\ NextStep(c).action = "assign" /\ NextStep(c).office = NoOffice
           \/ /\ c.state \in OpenStates /\ c.status = "READY" /\ c.owned
              /\ c.asked /\ c.state \in PiStates /\ NextStep(c).action = "wait"
           \/ /\ c.state \in OpenStates /\ c.status = "READY" /\ c.owned /\ ~(c.asked /\ c.state \in PiStates)
              /\ c.open # {} /\ NextStep(c) = ItemStep(c)
           \/ /\ c.state \in OpenStates /\ c.status = "READY" /\ c.owned /\ ~(c.asked /\ c.state \in PiStates)
              /\ c.open = {} /\ NextStep(c) = CleanStep(c)
<1>1. c.status \in {"FAILED", "not_agreement", "PROCESSING", "READY"}
  BY DEF ContractTypes, DocStatuses, Failed
<1>2. \A a : Advise(a).action = a /\ Advise(a).office = NoOffice
  BY DEF Advise, Advice
<1> QED BY <1>1, <1>2 DEF NextStep

(* What the desk advises can be done (workflow.py, recommended next step). *)
LEMMA AdviceIsAccepted == AdviceInv => AdviceAccepted
<1> SUFFICES ASSUME AdviceInv, NextStep(contract).action \in Actions
             PROVE  \/ NextStep(contract).action \in Offered(contract, TRUE)
                    \/ /\ contract.state = "out_for_signature" /\ contract.open # {}
                       /\ NextStep(contract).action \in {"escalate", "send_back"}
  BY DEF AdviceAccepted
<1>0. contract \in ContractTypes
  BY DEF AdviceInv, Sound
<1> DEFINE a == NextStep(contract).action
<1>1. a \in Actions /\ a \notin {"none", "wait", "analyze_anyway", "reanalyze", "add_value"}
  BY ActionsAre DEF Chosen, Moves
<1>2. ASSUME a # "ask_pi", a # "pi_answered", contract.state \in FromStates[a] PROVE a \in Offered(contract, TRUE)
  BY <1>1, <1>2 DEF Offered, Accepts
<1>3. CASE a = "assign" /\ contract.state \in OpenStates
  BY <1>2, <1>3, ActionsAre
<1>4. CASE contract.state \in OpenStates /\ contract.open # {} /\ NextStep(contract) = ItemStep(contract)
  <2>1. a \in {"reject", "send_back", "escalate"} /\ (a = "send_back" => contract.state # "sent_back")
    BY <1>0, <1>1, <1>4, ItemAdvice
  <2>2. a \in Moves /\ FromStates[a] = AllowedFrom[a]
    BY <2>1, ActionsAre DEF Moves
  <2>3. CASE contract.state = "out_for_signature"
    <3>1. CASE a = "reject"
      <4>1. contract.state \in FromStates[a]
        BY <1>4, <2>2, <3>1 DEF AllowedFrom
      <4> QED BY <1>2, <3>1, <4>1
    <3> QED BY <1>4, <2>1, <2>3, <3>1
  <2>4. CASE contract.state # "out_for_signature"
    <3>1. contract.state \in AllowedFrom[a]
      BY <1>4, <2>1, <2>4 DEF AllowedFrom, OpenStates
    <3> QED BY <1>2, <2>1, <2>2, <3>1
  <2> QED BY <2>3, <2>4
<1>5. CASE contract.state \in OpenStates /\ NextStep(contract) = CleanStep(contract)
  <2>1. \/ a = "send_for_signature" /\ contract.state = "ready_to_sign"
        \/ a = "approve" /\ contract.state \notin {"ready_to_sign", "out_for_signature"}
    BY <1>0, <1>1, <1>5, CleanAdvice
  <2>2. a \in Moves /\ FromStates[a] = AllowedFrom[a]
    BY <2>1, ActionsAre DEF Moves
  <2>3. contract.state \in AllowedFrom[a]
    BY <1>5, <2>1 DEF AllowedFrom, OpenStates
  <2> QED BY <1>2, <2>1, <2>2, <2>3
<1>6. a = NextStep(contract).action
  OBVIOUS
<1> HIDE DEF a
<1> QED BY <1>0, <1>1, <1>3, <1>4, <1>5, <1>6, NextAdvice

(* Whoever the contract waits on is whose turn it is (waiting_on).         *)
LEMMA WaitsDoAgree == AdviceInv => WaitsAgree
<1> SUFFICES ASSUME AdviceInv PROVE WaitsAgree
  OBVIOUS
<1> DEFINE c == contract
           on == WaitingOn(c)
<1>0. c \in ContractTypes /\ c.asked \in BOOLEAN /\ c.state \in States
  BY DEF AdviceInv, Sound, ContractTypes
<1>1. \/ on.kind = "pi_department" /\ on.office = NoOffice /\ c.asked /\ c.state \in PiStates
      \/ on.office = NoOffice /\ c.state \in {"intake", "in_review"} /\ ~c.asked
      \/ on.office = NoOffice /\ c.state = "escalated" /\ StillPending(c) = <<>> /\ ~c.asked
      \/ /\ on.kind = "internal_office" /\ on.office = Head(StillPending(c)) /\ c.state = "escalated"
         /\ StillPending(c) # <<>> /\ ~c.asked
      \/ on.kind = "counterparty" /\ on.office = NoOffice /\ c.state = "sent_back"
      \/ on.kind = "signatory" /\ on.office = NoOffice /\ c.state \in {"ready_to_sign", "out_for_signature"}
      \/ on.kind = "nobody" /\ on.office = NoOffice /\ c.state \notin OpenStates
  <2>1. CASE c.asked /\ c.state \in PiStates
    BY <1>0, <2>1 DEF WaitingOn, PiStates, OpenStates
  <2>2. CASE ~c.asked /\ c.state \in {"intake", "in_review"}
    BY <1>0, <2>2 DEF WaitingOn, PiStates, OpenStates
  <2>3. CASE ~c.asked /\ c.state = "escalated"
    BY <1>0, <2>3 DEF WaitingOn, PiStates, OpenStates
  <2>4. CASE c.state = "sent_back"
    BY <1>0, <2>4 DEF WaitingOn, PiStates, OpenStates
  <2>5. CASE c.state \in {"ready_to_sign", "out_for_signature"}
    BY <1>0, <2>5 DEF WaitingOn, PiStates, OpenStates
  <2>6. CASE c.state \notin OpenStates
    BY <1>0, <2>6 DEF WaitingOn, PiStates, OpenStates
  <2> QED BY <1>0, <2>1, <2>2, <2>3, <2>4, <2>5, <2>6 DEF PiStates, OpenStates
<1>2. on.kind = "internal_office" => StillPending(c) # <<>> /\ on.office = Head(StillPending(c)) /\ c.state = "escalated"
  <2>1. CASE c.asked /\ c.state \in PiStates
    BY <1>0, <2>1 DEF WaitingOn, PiStates, OpenStates
  <2>2. CASE ~c.asked /\ c.state \in {"intake", "in_review"}
    BY <1>0, <2>2 DEF WaitingOn, PiStates, OpenStates
  <2>3. CASE ~c.asked /\ c.state = "escalated"
    BY <1>0, <2>3 DEF WaitingOn, PiStates, OpenStates
  <2>4. CASE c.state = "sent_back"
    BY <1>0, <2>4 DEF WaitingOn, PiStates, OpenStates
  <2>5. CASE c.state \in {"ready_to_sign", "out_for_signature"}
    BY <1>0, <2>5 DEF WaitingOn, PiStates, OpenStates
  <2>6. CASE c.state \notin OpenStates
    BY <1>0, <2>6 DEF WaitingOn, PiStates, OpenStates
  <2> QED BY <1>0, <2>1, <2>2, <2>3, <2>4, <2>5, <2>6 DEF PiStates, OpenStates
<1>3. StillPending(c) # <<>> => Head(StillPending(c)) \in ToSet(StillPending(c)) /\ Head(StillPending(c)) \notin c.approved
  BY <1>0, PendingIs
<1> HIDE DEF on
<1>4. ASSUME c.status = "READY", NextStep(c).action = "wait"
      PROVE  on.kind \in {"pi_department", "internal_office", "counterparty", "signatory"}
  <2>1. CASE c.asked /\ c.state \in PiStates
    BY <1>1, <2>1 DEF PiStates, OpenStates
  <2>2. CASE c.open # {} /\ ~(c.asked /\ c.state \in PiStates) /\ NextStep(c) = ItemStep(c)
    <3>1. (c.state = "escalated" /\ NamesOf(c.required) \ c.approved # {}) \/ c.state = "sent_back"
      BY <1>0, <1>4, <2>2, ItemAdvice
    <3>2. NamesOf(c.required) \ c.approved # {} => StillPending(c) # <<>>
      BY <1>0, PendingIs
    <3> QED BY <1>1, <2>2, <3>1, <3>2 DEF PiStates, OpenStates
  <2>3. CASE c.open = {} /\ NextStep(c) = CleanStep(c)
    <3>1. c.state = "out_for_signature"
      BY <1>0, <1>4, <2>3, CleanAdvice
    <3> QED BY <1>1, <3>1 DEF PiStates, OpenStates
  <2> HIDE DEF c
  <2> QED BY <1>0, <1>4, <2>1, <2>2, <2>3, NextAdvice
<1>5. on.office \in ApprovesFor => "office_approve" \in Offered(c, FALSE)
  <2> SUFFICES ASSUME on.office \in ApprovesFor PROVE "office_approve" \in Offered(c, FALSE)
    OBVIOUS
  <2>1. on.office # NoOffice
    BY AdviceAssumption
  <2>2. StillPending(c) # <<>> /\ on.office = Head(StillPending(c)) /\ c.state = "escalated"
    BY <1>1, <2>1
  <2>3. on.office \in ToSet(StillPending(c)) \cap ApprovesFor
    BY <1>3, <2>2
  <2>4. Accepts(c, "office_approve")
    BY <2>2, ActionsAre DEF Accepts, AllowedFrom
  <2> QED BY <2>3, <2>4 DEF Offered
<1> QED BY <1>2, <1>3, <1>4, <1>5 DEF WaitsAgree, on

(* What a person escalated is not signed without that office.              *)
LEMMA EscalationsAreApproved == AdviceInv => EscalationsApproved
<1> SUFFICES ASSUME AdviceInv, NextStep(contract).action = "send_for_signature"
             PROVE  ToSet(contract.escalated) \subseteq contract.approved
  BY DEF EscalationsApproved
<1>0. contract \in ContractTypes /\ Signable(contract)
  BY DEF AdviceInv, Sound
<1>1. contract.state = "ready_to_sign"
  BY <1>0, NextAdvice, ItemAdvice, CleanAdvice
<1>2. ToSet(contract.escalated) = NamesOf(contract.escalated)
  BY <1>0, NamedIsSet DEF ContractTypes
<1> QED BY <1>0, <1>1, <1>2 DEF Signable

(* What is advised moves the contract on, or changes what is advised.      *)
LEMMA AdviceDoesMove == AdviceInv => AdviceMoves
<1> SUFFICES ASSUME AdviceInv, NextStep(contract).action \notin {"none", "wait"}
             PROVE  NextStep(Followed(contract, NextStep(contract))) # NextStep(contract)
  BY DEF AdviceMoves
<1>0. contract \in ContractTypes /\ Sound(contract)
  BY DEF AdviceInv, Sound
<1>1. PICK c : c = contract
  OBVIOUS
<1>2. PICK s : s = NextStep(c)
  OBVIOUS
<1>3. c \in ContractTypes /\ Sound(c) /\ s.action \notin {"none", "wait"}
  BY <1>0, <1>1, <1>2
<1>4. SUFFICES NextStep(Followed(c, s)) # s
  BY <1>1, <1>2
<1>5. Actions = Chosen \cup Moves /\ NoOffice \notin AdviceOffices
  BY ActionsAre, AdviceAssumption
<1>6. CASE s.action = "analyze_anyway" /\ c.state \in OpenStates
  <2>1. PICK d : d = [c EXCEPT !.status = "PROCESSING"]
    OBVIOUS
  <2>2. Followed(c, s) = d
    BY <1>5, <1>6, <2>1 DEF Followed, Chosen, Moves
  <2>3. d \in ContractTypes /\ d.state = c.state /\ d.status = "PROCESSING"
    BY <1>3, <2>1 DEF ContractTypes, DocStatuses
  <2>4. NextStep(d).action = "wait"
    BY <1>6, <2>3, NextAdvice
  <2> QED BY <1>3, <2>2, <2>4
<1>7. CASE s.action = "reanalyze" /\ c.state \in OpenStates
  <2>1. PICK d : d = [c EXCEPT !.status = "PROCESSING"]
    OBVIOUS
  <2>2. Followed(c, s) = d
    BY <1>5, <1>7, <2>1 DEF Followed, Chosen, Moves
  <2>3. d \in ContractTypes /\ d.state = c.state /\ d.status = "PROCESSING"
    BY <1>3, <2>1 DEF ContractTypes, DocStatuses
  <2>4. NextStep(d).action = "wait"
    BY <1>7, <2>3, NextAdvice
  <2> QED BY <1>3, <2>2, <2>4
<1>8. CASE s.action = "assign" /\ s.office = NoOffice /\ c.state \in OpenStates /\ c.status = "READY"
  <2>1. Followed(c, s) = After(c, "assign", NoOffice)
    BY <1>5, <1>8 DEF Followed, Chosen, Moves
  <2>2. PICK d : d = After(c, "assign", NoOffice)
    OBVIOUS
  <2>3. d \in ContractTypes /\ d.owned = TRUE
    BY <1>3, <2>2, AfterAssign DEF Sound
  <2>4. NextStep(d).action # "assign"
    <3>1. d.open # {} => ItemStep(d).action # "assign"
      BY <2>3, ItemAdvice
    <3>2. CleanStep(d).action # "assign"
      BY <2>3, CleanAdvice
    <3> QED BY <2>3, <3>1, <3>2, NextAdvice
  <2> QED BY <1>8, <2>1, <2>2, <2>4
<1>9. CASE /\ c.state \in OpenStates /\ c.status = "READY" /\ c.owned /\ c.open # {} /\ s = ItemStep(c)
  <2>0. c.owned = TRUE
    BY <1>3, <1>9 DEF ContractTypes
  <2>1. CASE s.action = "send_back" /\ s.office = NoOffice
    <3>1. Followed(c, s) = After(c, "send_back", NoOffice)
      BY <1>5, <2>1 DEF Followed, Chosen, Moves
    <3>2. PICK d : d = After(c, "send_back", NoOffice)
      OBVIOUS
    <3>3. /\ d \in ContractTypes /\ d.state = "sent_back" /\ d.open = c.open /\ d.status = c.status
          /\ d.owned = TRUE /\ d.asked = FALSE
      BY <1>3, <2>0, <3>2, AfterSendBack DEF Sound
    <3>4. NextStep(d) = ItemStep(d)
      BY <1>9, <3>3, NextAdvice DEF OpenStates
    <3>5. ItemStep(d).action # "send_back"
      BY <1>9, <3>3, ItemAdvice
    <3> QED BY <2>1, <3>1, <3>2, <3>4, <3>5
  <2>2. CASE s.action = "reject" /\ s.office = NoOffice
    <3>1. Followed(c, s) = After(c, "reject", NoOffice)
      BY <1>5, <2>2 DEF Followed, Chosen, Moves
    <3>2. PICK d : d = After(c, "reject", NoOffice)
      OBVIOUS
    <3>3. d \in ContractTypes /\ d.state = "rejected"
      BY <1>3, <3>2, AfterPlain DEF Sound, Plain, PlainState
    <3>4. NextStep(d).action = "none"
      BY <3>3, NextAdvice DEF OpenStates
    <3> QED BY <1>3, <3>1, <3>2, <3>4
  <2>3. CASE s.action = "escalate" /\ s.office \in AdviceOffices \ c.approved
    <3>1. Followed(c, s) = After(c, "escalate", s.office)
      BY <1>5, <2>3 DEF Followed, Chosen, Moves
    <3>2. PICK d : d = After(c, "escalate", s.office)
      OBVIOUS
    <3>3. /\ d \in ContractTypes /\ d.state = "escalated" /\ d.open = c.open /\ d.status = c.status
          /\ d.owned = TRUE /\ d.asked = FALSE /\ d.approved = c.approved \ {s.office} /\ s.office \in NamesOf(d.required)
      <4>1. s.office \in AdviceOffices
        BY <2>3
      <4>2. /\ Sound(d) /\ d.state = "escalated" /\ s.office \in NamesOf(d.required)
            /\ d.value = c.value /\ d.open = c.open /\ d.approved = c.approved \ {s.office}
            /\ d.status = c.status /\ d.owned = c.owned /\ d.asked = FALSE
        BY <1>3, <3>2, <4>1, AfterEscalate
      <4> QED BY <2>0, <4>2 DEF Sound
    <3>4. NextStep(d) = ItemStep(d)
      BY <1>9, <3>3, NextAdvice DEF OpenStates
    <3>5. d.approved = c.approved
      BY <2>3, <3>3
    <3>6. ItemStep(d).action = "wait"
      BY <1>3, <1>9, <2>3, <3>3, <3>5, EscalationIsWaitedFor
    <3> QED BY <1>3, <3>1, <3>2, <3>4, <3>6
  <2> QED BY <1>3, <1>9, <2>1, <2>2, <2>3, ItemAdvice
<1>10. CASE /\ c.state \in OpenStates /\ c.status = "READY" /\ c.owned /\ ~(c.asked /\ c.state \in PiStates)
            /\ c.open = {} /\ s = CleanStep(c)
  <2>0. c.owned = TRUE
    BY <1>3, <1>10 DEF ContractTypes
  <2>1. CASE s.action = "send_for_signature" /\ s.office = NoOffice /\ c.state = "ready_to_sign"
    <3>1. Followed(c, s) = After(c, "send_for_signature", NoOffice)
      BY <1>5, <2>1 DEF Followed, Chosen, Moves
    <3>2. PICK d : d = After(c, "send_for_signature", NoOffice)
      OBVIOUS
    <3>3. /\ d \in ContractTypes /\ d.state = "out_for_signature" /\ d.open = c.open /\ d.status = c.status
          /\ d.owned = TRUE
      BY <1>3, <2>0, <2>1, <3>2, AfterPlain DEF Sound, Plain, PlainState
    <3>4. NextStep(d) = CleanStep(d)
      BY <1>10, <3>3, NextAdvice DEF OpenStates, PiStates
    <3>5. CleanStep(d).action = "wait"
      BY <3>3 DEF CleanStep, Advise, Advice
    <3> QED BY <1>3, <3>1, <3>2, <3>4, <3>5
  <2>2. CASE s.action = "add_value" /\ c.value = NoValue
    <3> DEFINE v == CHOOSE v \in Values : TRUE
               e == [c EXCEPT !.value = v]
    <3>1. Followed(c, s) = Routed(e)
      BY <1>5, <2>2 DEF Followed, Chosen, Moves
    <3>2. v \in Values /\ v # NoValue
      BY AdviceAssumption
    <3> HIDE DEF v
    <3>3. e \in ContractTypes /\ e.value = v /\ e.status = c.status /\ e.state = c.state
      BY <1>3, <3>2 DEF ContractTypes
    <3> HIDE DEF e
    <3>4. PICK d : d = Routed(e)
      OBVIOUS
    <3>5. d \in ContractTypes /\ d.value = v
      BY <3>3, <3>4, Routes
    <3>6. NextStep(d).action # "add_value"
      <4>1. d.open # {} => ItemStep(d).action # "add_value"
        BY <3>5, ItemAdvice
      <4>2. CleanStep(d).action # "add_value"
        BY <3>2, <3>5, CleanAdvice
      <4> QED BY <3>5, <4>1, <4>2, NextAdvice
    <3> QED BY <2>2, <3>1, <3>4, <3>6
  <2>3. CASE /\ s.action = "approve" /\ c.value # NoValue
             /\ s.office = IF c.state = "escalated" /\ StillPending(c) # <<>> THEN Head(StillPending(c)) ELSE NoOffice
    <3>1. \E d \in ContractTypes :
             /\ Followed(c, s) = d
             /\ d.state = IF StillPending(d) # <<>> THEN "escalated" ELSE "ready_to_sign"
             /\ d.value = c.value /\ d.open = c.open /\ d.status = c.status /\ d.owned = TRUE /\ d.asked = FALSE
             /\ s.office # NoOffice => s.office \in d.approved
      <4>1. CASE c.state = "escalated" /\ StillPending(c) # <<>>
        <5>1. s.office \in AdviceOffices
          BY <1>3, <2>3, <4>1, PendingIs DEF ContractTypes, NamesOf
        <5>2. s.office # NoOffice
          BY <1>5, <5>1
        <5>3. PICK o \in AdviceOffices : o = s.office
          BY <5>1
        <5>4. PICK d : d = After(c, "office_approve", o)
          OBVIOUS
        <5>5. /\ Sound(d)
              /\ d.state = IF StillPending(d) # <<>> THEN "escalated" ELSE "ready_to_sign"
              /\ d.value = c.value /\ d.open = c.open /\ d.approved = c.approved \cup {o}
              /\ d.status = c.status /\ d.owned = c.owned /\ d.asked = FALSE
          BY <1>3, <5>4, AfterOfficeApprove
        <5>7. Followed(c, s) = d
          <6>1. Followed(c, s) = After(c, "office_approve", s.office)
            BY <1>5, <2>3, <5>2 DEF Followed, Chosen, Moves
          <6> QED BY <5>3, <5>4, <6>1
        <5>6. d \in ContractTypes /\ s.office \in d.approved /\ d.owned = TRUE
          BY <2>0, <5>3, <5>5 DEF Sound
        <5> QED BY <5>5, <5>6, <5>7
      <4>2. CASE ~(c.state = "escalated" /\ StillPending(c) # <<>>)
        <5>1. s.office = NoOffice
          BY <2>3, <4>2
        <5>2. Followed(c, s) = After(c, "approve", NoOffice)
          BY <1>5, <2>3, <5>1 DEF Followed, Chosen, Moves
        <5>3. PICK d : d = After(c, "approve", NoOffice)
          OBVIOUS
        <5>4. /\ Sound(d)
              /\ d.state = IF StillPending(d) # <<>> THEN "escalated" ELSE "ready_to_sign"
              /\ d.value = c.value /\ d.open = c.open
              /\ d.status = c.status /\ d.owned = c.owned /\ d.asked = FALSE
          BY <1>3, <5>3, AfterApprove
        <5>5. d \in ContractTypes /\ d.owned = TRUE
          BY <2>0, <5>4 DEF Sound
        <5> QED BY <5>1, <5>2, <5>3, <5>4, <5>5
      <4> QED BY <4>1, <4>2
    <3>2. PICK d \in ContractTypes :
             /\ Followed(c, s) = d
             /\ d.state = IF StillPending(d) # <<>> THEN "escalated" ELSE "ready_to_sign"
             /\ d.value = c.value /\ d.open = c.open /\ d.status = c.status /\ d.owned = TRUE /\ d.asked = FALSE
             /\ s.office # NoOffice => s.office \in d.approved
      BY <3>1
    <3>3. NextStep(d) = CleanStep(d)
      BY <1>10, <3>2, NextAdvice DEF OpenStates
    <3>4. CASE StillPending(d) # <<>>
      <4>1. CleanStep(d).office = Head(StillPending(d))
        BY <2>3, <3>2, <3>4, CleanAdvice
      <4>2. Head(StillPending(d)) \in NamesOf(d.required) \ d.approved
        BY <3>4, PendingIs
      <4>3. Head(StillPending(d)) # NoOffice
        BY <1>5, <4>2 DEF ContractTypes, NamesOf
      <4> QED BY <3>2, <3>3, <4>1, <4>2, <4>3
    <3>5. CASE StillPending(d) = <<>>
      <4>1. d.state = "ready_to_sign"
        BY <3>2, <3>5
      <4>2. CleanStep(d).action # "approve"
        BY <4>1, CleanAdvice
      <4> QED BY <2>3, <3>2, <3>3, <4>2
    <3> QED BY <3>4, <3>5
  <2> QED BY <1>3, <1>10, <2>1, <2>2, <2>3, CleanAdvice
<1> QED BY <1>2, <1>3, <1>6, <1>7, <1>8, <1>9, <1>10, NextAdvice

(* The invariant says that advice can be followed and goes on              *)
(* (workflow.py).                                                          *)
LEMMA AdviceGives == AdviceInv => AdviceHolds
BY AdviceIsAccepted, AdviceDoesMove, WaitsDoAgree, EscalationsAreApproved DEF AdviceHolds

(***************************************************************************)
(* Classification: what the stage stores (classify.py)                     *)
(***************************************************************************)

(* What the run works on, and what it stores, has all the fields.          *)
Analysis(w) ==
    w = [file |-> w.file, engine |-> w.engine, reused |-> w.reused, pending |-> w.pending,
         labelled |-> w.labelled, unclassified |-> w.unclassified, round |-> w.round,
         failedWindows |-> w.failedWindows, parties |-> w.parties, partiesSource |-> w.partiesSource,
         validated |-> w.validated, reconciled |-> w.reconciled, complete |-> w.complete,
         needsReview |-> w.needsReview, named |-> w.named, made |-> w.made]

(* Each clause is labelled or left, and never both.                        *)
Split(labelled, left) == labelled \cup left = Sections /\ labelled \cap left = {}

(* Parties are the model's, or those found by rule when it named none.     *)
PartiesFit(w) ==
    /\ w.partiesSource = "rule" <=> w.named = {} /\ w.file.parties # {}
    /\ w.parties = IF w.named # {} THEN w.named ELSE w.file.parties

(* An analysis that nothing is missing from.                               *)
Whole(w) == w.unclassified = {} /\ w.failedWindows = {} /\ w.validated = TRUE

(* What is stored.                                                         *)
StoredFits(w) ==
    /\ Split(w.labelled, w.unclassified)
    /\ w.made = <<w.file, w.engine>>
    /\ PartiesFit(w)
    /\ w.complete = TRUE => Whole(w)
    /\ w.reused = TRUE => Whole(w)
    /\ w.needsReview = TRUE \/ (w.complete = TRUE /\ Whole(w) /\ w.reconciled # "no")

(* What the run has, wherever it is: while it labels, what is not labelled *)
(* is pending; later it is flagged; and what it took over was whole.       *)
WorkFits ==
    /\ phase \in {"whole", "label", "extract", "validate", "store"} => work.made = <<work.file, work.engine>>
    /\ phase \in {"whole", "label", "extract", "validate"} => work.reused = FALSE
    /\ phase \in {"whole", "label"} => Split(work.labelled, work.pending) /\ work.unclassified = {}
    /\ phase \in {"extract", "validate", "store"} => Split(work.labelled, work.unclassified)
    /\ phase = "store" => work.reused \in BOOLEAN
    /\ phase = "store" /\ work.reused = TRUE => Whole(work) /\ PartiesFit(work)

(* The run of the stage, and every analysis that is stored, are so.        *)
ClassifyInv ==
    /\ Analysis(work) /\ Analysis(extraction)
    /\ extraction = Unread \/ StoredFits(extraction)
    /\ WorkFits

(* Nothing read is an analysis.                                            *)
LEMMA UnreadIsAnalysis == Analysis(Unread)
BY DEF Analysis, Unread

(* The stage starts with what is stored.                                   *)
LEMMA ClassifyStarts == ClassifyInit => ClassifyInv
BY UnreadIsAnalysis DEF ClassifyInit, ClassifyInv, WorkFits

(* A run takes a stored analysis over, or begins anew.                     *)
LEMMA ClassifyKeeps ==
    ASSUME ClassifyInv, Classify
    PROVE  ClassifyInv'
<1>1. extraction' = extraction
  BY DEF Classify
<1>2. CASE Reusable(bytes, model)
  <2>1. /\ phase' = "store"
        /\ work' = [extraction EXCEPT !.reused = TRUE, !.file = bytes, !.engine = model]
        /\ extraction.file = bytes /\ extraction.engine = model /\ extraction.complete
    BY <1>2 DEF Classify, Reusable
  <2>2. extraction # Unread
    BY <2>1 DEF Unread
  <2>3. StoredFits(extraction) /\ Analysis(extraction)
    BY <2>2 DEF ClassifyInv
  <2>4. /\ Analysis(work') /\ work'.reused = TRUE /\ work'.file = bytes /\ work'.engine = model
        /\ work'.labelled = extraction.labelled /\ work'.unclassified = extraction.unclassified
        /\ work'.failedWindows = extraction.failedWindows /\ work'.validated = extraction.validated
        /\ work'.made = extraction.made /\ work'.named = extraction.named
        /\ work'.parties = extraction.parties /\ work'.partiesSource = extraction.partiesSource
    BY <2>1, <2>3 DEF Analysis
  <2>5. Whole(extraction)
    BY <2>1, <2>3 DEF StoredFits
  <2>6. Whole(work') /\ PartiesFit(work')
    BY <2>1, <2>3, <2>4, <2>5 DEF StoredFits, Whole, PartiesFit
  <2>7. WorkFits'
    BY <2>1, <2>3, <2>4, <2>6 DEF WorkFits, StoredFits, Split, Sections
  <2> QED BY <1>1, <2>4, <2>7 DEF ClassifyInv
<1>3. CASE ~Reusable(bytes, model)
  <2>1. /\ phase' \in {"whole", "label"}
        /\ work' = [Unread EXCEPT !.file = bytes, !.engine = model, !.made = <<bytes, model>>]
    BY <1>3 DEF Classify
  <2>2. Analysis(work')
    BY <2>1 DEF Analysis, Unread
  <2>3. WorkFits'
    BY <2>1 DEF WorkFits, Unread, Split, Sections
  <2> QED BY <1>1, <2>2, <2>3 DEF ClassifyInv
<1> QED BY <1>2, <1>3

(* The extraction of a whole document keeps the invariant,                 *)
LEMMA ExtractWholeKeeps ==
    ASSUME ClassifyInv, ExtractWhole
    PROVE  ClassifyInv'
<1>1. PICK named \in Named, covers \in BOOLEAN :
          /\ phase' = IF covers THEN "validate" ELSE "label"
          /\ work' = [work EXCEPT !.named = named,
                                  !.pending = IF covers THEN {} ELSE @,
                                  !.labelled = IF covers THEN Sections ELSE @]
  BY DEF ExtractWhole
<1>2. Analysis(work) /\ phase = "whole" /\ extraction' = extraction
  BY DEF ClassifyInv, ExtractWhole
<1>3. /\ Analysis(work') /\ work'.made = work.made /\ work'.file = work.file /\ work'.engine = work.engine
      /\ work'.reused = work.reused /\ work'.unclassified = work.unclassified
      /\ work'.labelled = (IF covers THEN Sections ELSE work.labelled)
      /\ work'.pending = (IF covers THEN {} ELSE work.pending)
  BY <1>1, <1>2 DEF Analysis
<1>4. WorkFits'
  BY <1>1, <1>2, <1>3 DEF ClassifyInv, WorkFits, Split, Sections
<1> QED BY <1>2, <1>3, <1>4 DEF ClassifyInv

(* so do the labels of its clauses,                                        *)
LEMMA LabelKeeps ==
    ASSUME ClassifyInv, LabelRound
    PROVE  ClassifyInv'
<1>1. PICK mentioned \in SUBSET work.pending : \E usable \in SUBSET mentioned, over \in BOOLEAN :
          /\ phase' \in (IF ~over THEN {"label"} ELSE {"validate", "extract"})
          /\ work' = [work EXCEPT !.labelled = @ \cup usable,
                                  !.pending = IF over THEN {} ELSE Unlabelled(mentioned, usable),
                                  !.unclassified = IF over THEN Unlabelled(mentioned, usable) ELSE @,
                                  !.round = IF over THEN @ ELSE @ + 1]
  BY DEF LabelRound
<1>2. PICK usable \in SUBSET mentioned, over \in BOOLEAN :
          /\ phase' \in (IF ~over THEN {"label"} ELSE {"validate", "extract"})
          /\ work' = [work EXCEPT !.labelled = @ \cup usable,
                                  !.pending = IF over THEN {} ELSE Unlabelled(mentioned, usable),
                                  !.unclassified = IF over THEN Unlabelled(mentioned, usable) ELSE @,
                                  !.round = IF over THEN @ ELSE @ + 1]
  BY <1>1
<1>3. Analysis(work) /\ phase = "label" /\ extraction' = extraction
  BY DEF ClassifyInv, LabelRound
<1>4. /\ Analysis(work') /\ work'.made = work.made /\ work'.file = work.file /\ work'.engine = work.engine
      /\ work'.reused = work.reused
      /\ work'.labelled = work.labelled \cup usable
      /\ work'.pending = (IF over THEN {} ELSE work.pending \ usable)
      /\ work'.unclassified = (IF over THEN work.pending \ usable ELSE work.unclassified)
  BY <1>2, <1>3 DEF Analysis, Unlabelled
<1>5. WorkFits'
  BY <1>2, <1>3, <1>4 DEF ClassifyInv, WorkFits, Split, Sections
<1> QED BY <1>3, <1>4, <1>5 DEF ClassifyInv

(* the windows of a long document,                                         *)
LEMMA WindowsKeep ==
    ASSUME ClassifyInv, ExtractWindows
    PROVE  ClassifyInv'
<1>1. PICK failed, named : work' = [work EXCEPT !.failedWindows = failed, !.named = named]
  BY DEF ExtractWindows
<1>2. Analysis(work) /\ phase = "extract" /\ phase' = "validate" /\ extraction' = extraction
  BY DEF ClassifyInv, ExtractWindows, At
<1>3. /\ Analysis(work') /\ work'.made = work.made /\ work'.file = work.file /\ work'.engine = work.engine
      /\ work'.reused = work.reused /\ work'.labelled = work.labelled /\ work'.unclassified = work.unclassified
  BY <1>1, <1>2 DEF Analysis
<1>4. WorkFits'
  BY <1>2, <1>3 DEF ClassifyInv, WorkFits, Split
<1> QED BY <1>2, <1>3, <1>4 DEF ClassifyInv

(* the validation                                                          *)
LEMMA ValidateKeeps ==
    ASSUME ClassifyInv, Validate
    PROVE  ClassifyInv'
<1>1. Analysis(work) /\ phase = "validate" /\ phase' = "store" /\ extraction' = extraction
  BY DEF ClassifyInv, Validate, At
<1>2. work' = work \/ \E sum : work' = [work EXCEPT !.validated = TRUE, !.reconciled = sum]
  BY DEF Validate
<1>3. /\ Analysis(work') /\ work'.made = work.made /\ work'.file = work.file /\ work'.engine = work.engine
      /\ work'.reused = work.reused /\ work'.labelled = work.labelled /\ work'.unclassified = work.unclassified
  BY <1>1, <1>2 DEF Analysis
<1>4. WorkFits'
  BY <1>1, <1>3 DEF ClassifyInv, WorkFits, Split
<1> QED BY <1>1, <1>3, <1>4 DEF ClassifyInv

(* and what is stored of it;                                               *)
LEMMA StoreKeeps ==
    ASSUME ClassifyInv, StoreAnalysis
    PROVE  ClassifyInv'
<1> DEFINE put == extraction'
<1>1. /\ put = [work EXCEPT !.parties = Parties(work), !.partiesSource = Source(work),
                            !.complete = AllLabelled(work), !.needsReview = NeedsReview(work)]
      /\ Analysis(work) /\ WorkFits /\ phase = "store" /\ phase' = "stored" /\ work' = Unread
  BY DEF StoreAnalysis, ClassifyInv, At
<1>2. /\ Analysis(put) /\ put.file = work.file /\ put.engine = work.engine /\ put.made = work.made
      /\ put.named = work.named /\ put.labelled = work.labelled /\ put.unclassified = work.unclassified
      /\ put.failedWindows = work.failedWindows /\ put.validated = work.validated
      /\ put.reused = work.reused /\ put.reconciled = work.reconciled
      /\ put.parties = Parties(work) /\ put.partiesSource = Source(work)
      /\ put.complete = AllLabelled(work) /\ put.needsReview = NeedsReview(work)
  BY <1>1 DEF Analysis
<1> HIDE DEF put
<1>3. work.reused \in BOOLEAN /\ (work.reused = TRUE => Whole(work) /\ PartiesFit(work))
  BY <1>1 DEF WorkFits
<1>4. PartiesFit(put)
  <2>1. CASE work.reused = FALSE
    BY <1>2, <2>1 DEF PartiesFit, Parties, Source, ModelParties
  <2>2. CASE work.reused = TRUE
    BY <1>2, <1>3, <2>2 DEF PartiesFit, Parties, Source, ModelParties
  <2> QED BY <1>3, <2>1, <2>2
<1>5. put.complete = TRUE => Whole(put)
  BY <1>2 DEF AllLabelled, Whole
<1>6. put.needsReview = TRUE \/ (put.complete = TRUE /\ Whole(put) /\ put.reconciled # "no")
  BY <1>2 DEF AllLabelled, NeedsReview, Whole
<1>7. StoredFits(put)
  BY <1>1, <1>2, <1>3, <1>4, <1>5, <1>6 DEF StoredFits, WorkFits, Whole, Split
<1>8. WorkFits'
  BY <1>1 DEF WorkFits
<1> QED BY <1>1, <1>2, <1>7, <1>8, UnreadIsAnalysis DEF ClassifyInv, put

(* and what happens to the files meanwhile.                                *)
LEMMA OutsideKeeps ==
    ASSUME ClassifyInv, WriteMeta \/ GiveUp \/ ReplaceFile \/ UpgradeEngine \/ UNCHANGED classifyVars
    PROVE  ClassifyInv'
<1>1. extraction' = extraction
  BY DEF WriteMeta, GiveUp, ReplaceFile, UpgradeEngine, classifyVars
<1>2. (work' = work /\ (phase' = phase \/ phase' = "idle")) \/ (work' = Unread /\ phase' = "idle")
  BY DEF WriteMeta, GiveUp, ReplaceFile, UpgradeEngine, classifyVars, At
<1>3. Analysis(work')
  BY <1>2, UnreadIsAnalysis DEF ClassifyInv
<1>4. WorkFits'
  BY <1>2 DEF ClassifyInv, WorkFits
<1> QED BY <1>1, <1>3, <1>4 DEF ClassifyInv

(* Every step of the stage keeps the invariant.                            *)
LEMMA ClassifyStep == ClassifyInv /\ [ClassifyNext]_classifyVars => ClassifyInv'
BY ClassifyKeeps, ExtractWholeKeeps, LabelKeeps, WindowsKeep, ValidateKeeps, StoreKeeps, OutsideKeeps
   DEF ClassifyNext

(* The invariant says that what is stored is whole or flagged              *)
(* (classify.py).                                                          *)
LEMMA ClassifyGives == ClassifyInv => AnalysisHolds
<1> SUFFICES ASSUME ClassifyInv, extraction # Unread PROVE AnalysisHolds
  BY DEF AnalysisHolds, NoClauseDropped, ReusedIsCurrent, PartiesKeepTheirSource, UnflaggedIsWhole
<1>1. StoredFits(extraction)
  BY DEF ClassifyInv
<1>2. NoClauseDropped
  BY <1>1 DEF StoredFits, NoClauseDropped, Split
<1>3. ReusedIsCurrent
  BY <1>1 DEF StoredFits, ReusedIsCurrent, Whole, Split
<1>4. PartiesKeepTheirSource
  BY <1>1 DEF StoredFits, PartiesKeepTheirSource, PartiesFit
<1>5. UnflaggedIsWhole
  BY <1>1 DEF StoredFits, UnflaggedIsWhole, Whole, Split
<1> QED BY <1>2, <1>3, <1>4, <1>5 DEF AnalysisHolds

(***************************************************************************)
(* The facts of windows (classify.py _merge_windows)                       *)
(***************************************************************************)

(* The first that is said.                                                 *)
LEMMA FirstOfThem ==
    ASSUME NEW K \in Nat, NEW v, DOMAIN v = 1 .. K, NEW B, NEW o, NEW n \in 1 .. K,
           v[n] \notin B, \A k \in 1 .. (n - 1) : v[k] \in B
    PROVE  FirstOf(v, B, o) = v[n]
<1> DEFINE said == {i \in DOMAIN v : v[i] \notin B}
<1>1. n \in said /\ \A k \in said : n <= k
  OBVIOUS
<1>2. said \subseteq Int
  OBVIOUS
<1>3. Min(said) = n
  <2> HIDE DEF said
  <2>1. Min(said) \in said /\ \A k \in said : Min(said) <= k
    BY <1>1 DEF Min
  <2>2. Min(said) <= n /\ n <= Min(said) /\ Min(said) \in Int
    BY <1>1, <1>2, <2>1
  <2> QED BY <2>2
<1> QED BY <1>1, <1>3 DEF FirstOf

(* Nothing is said.                                                        *)
LEMMA NoneIs ==
    ASSUME NEW K \in Nat, NEW v, DOMAIN v = 1 .. K, NEW B, NEW o, \A k \in 1 .. K : v[k] \in B
    PROVE  FirstOf(v, B, o) = o
BY DEF FirstOf

(* Something is said first, or nothing is.                                 *)
LEMMA SaidOrNot ==
    ASSUME NEW K \in Nat, NEW v, NEW B
    PROVE  \/ \A k \in 1 .. K : v[k] \in B
           \/ \E n \in 1 .. K : v[n] \notin B /\ \A k \in 1 .. (n - 1) : v[k] \in B
<1> DEFINE T == {n \in 1 .. K : v[n] \notin B}
<1>1. CASE T = {}
  BY <1>1
<1>2. CASE T # {}
  <2>1. PICK n \in T : \A k \in T : n <= k
    <3>1. T \subseteq Nat
      OBVIOUS
    <3> HIDE DEF T
    <3> QED BY <1>2, <3>1, LeastNumber
  <2>2. \A k \in 1 .. (n - 1) : v[k] \in B
    BY <2>1
  <2> QED BY <2>1, <2>2
<1> QED BY <1>1, <1>2

(* w is v with the values from the i-th to the j-th made one, x.           *)
Cut(v, K, i, j, x, w) ==
    /\ DOMAIN v = 1 .. K /\ DOMAIN w = 1 .. (K - (j - i))
    /\ \A k \in 1 .. (i - 1) : w[k] = v[k]
    /\ w[i] = x
    /\ \A k \in (i + 1) .. (K - (j - i)) : w[k] = v[k + (j - i)]

(* ... where x is the first that is said of them, or says nothing where    *)
(* they say nothing, the first that is said stays.                         *)
LEMMA FirstOfCut ==
    ASSUME NEW K \in Nat, NEW i \in 1 .. K, NEW j \in 1 .. K, i < j,
           NEW v, NEW x, NEW w, Cut(v, K, i, j, x, w), NEW B, NEW o,
           (\A k \in i .. j : v[k] \in B) => x \in B,
           \A n \in i .. j : v[n] \notin B /\ (\A k \in i .. (n - 1) : v[k] \in B) => x = v[n]
    PROVE  FirstOf(w, B, o) = FirstOf(v, B, o)
<1> DEFINE d == j - i
           M == K - d
<1>0. d \in Nat /\ M \in Nat /\ i \in 1 .. M /\ j = i + d /\ M = K - d
  OBVIOUS
<1>c. /\ DOMAIN v = 1 .. K /\ DOMAIN w = 1 .. M
      /\ \A k \in 1 .. (i - 1) : w[k] = v[k]
      /\ w[i] = x
      /\ \A k \in (i + 1) .. M : w[k] = v[k + d]
  BY DEF Cut
<1> HIDE DEF d, M
<1>1. CASE \A k \in 1 .. K : v[k] \in B
  <2>1. x \in B
    BY <1>1
  <2>2. ASSUME NEW k \in 1 .. M PROVE w[k] \in B
    <3>1. CASE k < i
      BY <1>0, <1>1, <1>c, <3>1
    <3>2. CASE k = i
      BY <1>c, <2>1, <3>2
    <3>3. CASE k > i
      <4>1. k \in (i + 1) .. M /\ k + d \in 1 .. K
        BY <1>0, <3>3
      <4> QED BY <1>1, <1>c, <4>1
    <3> QED BY <1>0, <3>1, <3>2, <3>3
  <2>3. FirstOf(v, B, o) = o
    BY <1>1, <1>c, NoneIs
  <2>4. FirstOf(w, B, o) = o
    BY <1>0, <1>c, <2>2, NoneIs
  <2> QED BY <2>3, <2>4
<1>2. ASSUME NEW n \in 1 .. K, v[n] \notin B, \A k \in 1 .. (n - 1) : v[k] \in B
      PROVE  FirstOf(w, B, o) = FirstOf(v, B, o)
  <2>1. FirstOf(v, B, o) = v[n]
    BY <1>2, <1>c, FirstOfThem
  <2>2. CASE n < i
    <3>1. n \in 1 .. M /\ n \in 1 .. (i - 1) /\ \A k \in 1 .. (n - 1) : k \in 1 .. (i - 1)
      BY <1>0, <2>2
    <3>2. w[n] = v[n] /\ \A k \in 1 .. (n - 1) : w[k] \in B
      BY <1>2, <1>c, <3>1
    <3> QED BY <1>0, <1>2, <1>c, <2>1, <3>1, <3>2, FirstOfThem
  <2>3. CASE n \in i .. j
    <3>1. x = v[n]
      <4>1. \A k \in i .. (n - 1) : k \in 1 .. (n - 1)
        OBVIOUS
      <4>2. \A k \in i .. (n - 1) : v[k] \in B
        BY <1>2, <4>1
      <4> QED BY <1>2, <2>3, <4>2
    <3>2. \A k \in 1 .. (i - 1) : k \in 1 .. (n - 1)
      BY <2>3
    <3>3. w[i] = v[n] /\ \A k \in 1 .. (i - 1) : w[k] \in B
      BY <1>2, <1>c, <3>1, <3>2
    <3>4. FirstOf(w, B, o) = w[i]
      BY <1>0, <1>2, <1>c, <3>3, FirstOfThem
    <3> QED BY <2>1, <3>3, <3>4
  <2>4. CASE n > j
    <3> DEFINE m == n - d
    <3>1. m \in (i + 1) .. M /\ m \in 1 .. M /\ m + d = n
      BY <1>0, <2>4
    <3> HIDE DEF m
    <3>2. w[m] = v[n]
      BY <1>c, <3>1
    <3>3. x \in B
      <4>1. \A k \in i .. j : k \in 1 .. (n - 1)
        BY <2>4
      <4> QED BY <1>2, <4>1
    <3>4. ASSUME NEW k \in 1 .. (m - 1) PROVE w[k] \in B
      <4>1. CASE k < i
        <5>1. k \in 1 .. (i - 1) /\ k \in 1 .. (n - 1)
          BY <2>4, <4>1
        <5> QED BY <1>2, <1>c, <5>1
      <4>2. CASE k = i
        BY <1>c, <3>3, <4>2
      <4>3. CASE k > i
        <5>1. k \in (i + 1) .. M /\ k + d \in 1 .. (n - 1)
          BY <1>0, <3>1, <4>3
        <5> QED BY <1>2, <1>c, <5>1
      <4> QED BY <3>1, <4>1, <4>2, <4>3
    <3>5. FirstOf(w, B, o) = w[m]
      BY <1>0, <1>2, <1>c, <3>1, <3>2, <3>4, FirstOfThem
    <3> QED BY <2>1, <3>2, <3>5
  <2> QED BY <2>2, <2>3, <2>4
<1> QED BY <1>1, <1>2, SaidOrNot

(* What is said of a list that is cut so: nothing but x is new, and what   *)
(* is gone was of those made one.                                          *)
LEMMA CutSays ==
    ASSUME NEW K \in Nat, NEW i \in 1 .. K, NEW j \in 1 .. K, i < j,
           NEW v, NEW x, NEW w, Cut(v, K, i, j, x, w)
    PROVE  /\ ToSet(v) = {v[k] : k \in 1 .. (i - 1)} \cup {v[k] : k \in i .. j} \cup {v[k] : k \in (j + 1) .. K}
           /\ ToSet(w) = {v[k] : k \in 1 .. (i - 1)} \cup {x} \cup {v[k] : k \in (j + 1) .. K}
<1> DEFINE d == j - i
           M == K - d
<1>0. d \in Nat /\ M \in Nat /\ i \in 1 .. M /\ j = i + d /\ M = K - d
  OBVIOUS
<1>c. /\ DOMAIN v = 1 .. K /\ DOMAIN w = 1 .. M
      /\ \A k \in 1 .. (i - 1) : w[k] = v[k]
      /\ w[i] = x
      /\ \A k \in (i + 1) .. M : w[k] = v[k + d]
  BY DEF Cut
<1> HIDE DEF d, M
<1>1. 1 .. K = (1 .. (i - 1)) \cup (i .. j) \cup ((j + 1) .. K)
  OBVIOUS
<1>2. ToSet(v) = {v[k] : k \in 1 .. (i - 1)} \cup {v[k] : k \in i .. j} \cup {v[k] : k \in (j + 1) .. K}
  BY <1>1, <1>c DEF ToSet
<1>3. 1 .. M = (1 .. (i - 1)) \cup {i} \cup ((i + 1) .. M)
  BY <1>0
<1>4. {w[k] : k \in (i + 1) .. M} = {v[k] : k \in (j + 1) .. K}
  <2>1. ASSUME NEW k \in (i + 1) .. M PROVE w[k] \in {v[l] : l \in (j + 1) .. K}
    <3>1. k + d \in (j + 1) .. K
      BY <1>0
    <3> QED BY <1>c, <3>1
  <2>2. ASSUME NEW l \in (j + 1) .. K PROVE v[l] \in {w[k] : k \in (i + 1) .. M}
    <3> DEFINE k == l - d
    <3>1. k \in (i + 1) .. M /\ k + d = l
      BY <1>0
    <3> HIDE DEF k
    <3>2. w[k] = v[l]
      BY <1>c, <3>1
    <3> QED BY <3>1, <3>2
  <2> QED BY <2>1, <2>2
<1>5. {w[k] : k \in 1 .. (i - 1)} = {v[k] : k \in 1 .. (i - 1)}
  BY <1>c
<1>6. ToSet(w) = {w[k] : k \in 1 .. (i - 1)} \cup {w[i]} \cup {w[k] : k \in (i + 1) .. M}
  BY <1>3, <1>c DEF ToSet
<1> QED BY <1>2, <1>4, <1>5, <1>6, <1>c

(* The grades a confidence has.                                            *)
Grades == {"low", "medium", "high"}

(* The weakest of some grades is the one that no other is below.           *)
LEMMA WeakestIs ==
    ASSUME NEW s, ToSet(s) \subseteq Grades, NEW c \in ToSet(s),
           \A e \in ToSet(s) : ConfidenceRank[c] <= ConfidenceRank[e]
    PROVE  Weakest(s) = c
<1>1. /\ Weakest(s) \in ToSet(s)
      /\ \A e \in ToSet(s) : ConfidenceRank[Weakest(s)] <= ConfidenceRank[e]
  BY DEF Weakest
<1>2. ConfidenceRank["low"] = 0 /\ ConfidenceRank["medium"] = 1 /\ ConfidenceRank["high"] = 2
  BY DEF ConfidenceRank
<1>3. c \in Grades /\ Weakest(s) \in Grades
  BY <1>1
<1>4. ConfidenceRank[c] <= ConfidenceRank[Weakest(s)] /\ ConfidenceRank[Weakest(s)] <= ConfidenceRank[c]
  BY <1>1
<1> HIDE <1>1
<1> QED BY <1>2, <1>3, <1>4 DEF Grades

(* ... and there is one.                                                   *)
LEMMA WeakestIsThere ==
    ASSUME NEW s, ToSet(s) \subseteq Grades, ToSet(s) # {}
    PROVE  Weakest(s) \in ToSet(s) /\ \A e \in ToSet(s) : ConfidenceRank[Weakest(s)] <= ConfidenceRank[e]
<1>1. ConfidenceRank["low"] = 0 /\ ConfidenceRank["medium"] = 1 /\ ConfidenceRank["high"] = 2
  BY DEF ConfidenceRank
<1> DEFINE D == ToSet(s)
<1>2. \E c \in D : \A e \in D : ConfidenceRank[c] <= ConfidenceRank[e]
  <2> HIDE DEF D
  <2>0. D \subseteq Grades /\ D # {}
    BY DEF D
  <2>1. CASE "low" \in D
    BY <1>1, <2>0, <2>1 DEF Grades
  <2>2. CASE "low" \notin D /\ "medium" \in D
    BY <1>1, <2>0, <2>2 DEF Grades
  <2>3. CASE "low" \notin D /\ "medium" \notin D
    <3>1. \A e \in D : e = "high"
      BY <2>0, <2>3 DEF Grades
    <3>2. "high" \in D
      BY <2>0, <3>1
    <3> QED BY <1>1, <3>1, <3>2
  <2> QED BY <2>1, <2>2, <2>3
<1> QED BY <1>2 DEF Weakest

(* What every window's answer is.                                          *)
Answered(parts) ==
    \A k \in 1 .. Len(parts) :
        /\ parts[k].renews \in BOOLEAN \cup {Silent}
        /\ parts[k].signature \in {"unknown", "unsigned", "signed"}
        /\ parts[k].confidence \in Grades

(* ... and so is what was read.                                            *)
LEMMA ReadAreAnswered ==
    ASSUME found \in Seq(Answers) PROVE Answered(found)
<1>1. DOMAIN ConfidenceRank = Grades
  BY DEF ConfidenceRank, Grades
<1>2. \A k \in 1 .. Len(found) : found[k] \in Answers
  OBVIOUS
<1> QED BY <1>1, <1>2, AnswersAssumption DEF Answered

(* The values of a field.                                                  *)
LEMMA FieldIs ==
    ASSUME NEW D, NEW parts \in Seq(D), NEW name
    PROVE  /\ DOMAIN Field(parts, name) = 1 .. Len(parts)
           /\ \A k \in 1 .. Len(parts) : Field(parts, name)[k] = parts[k][name]
           /\ ToSet(Field(parts, name)) = {parts[k][name] : k \in 1 .. Len(parts)}
<1>1. DOMAIN parts = 1 .. Len(parts)
  OBVIOUS
<1> DEFINE v == Field(parts, name)
<1>2. DOMAIN v = 1 .. Len(parts) /\ \A k \in 1 .. Len(parts) : v[k] = parts[k][name]
  BY <1>1 DEF Field
<1> HIDE DEF v
<1>3. ToSet(v) = {parts[k][name] : k \in 1 .. Len(parts)}
  BY <1>2 DEF ToSet
<1> QED BY <1>2, <1>3 DEF v

(* What is made of two windows and more; of one it is the same but for     *)
(* what is missing.                                                        *)
LEMMA MergedFields ==
    ASSUME NEW D, NEW parts \in Seq(D), Len(parts) >= 1, Answered(parts)
    PROVE  /\ MergeWindows(parts).fact = FirstOf(Field(parts, "fact"), {Silent}, Silent)
           /\ MergeWindows(parts).renews = Tri(Field(parts, "renews"))
           /\ MergeWindows(parts).items = Union(Field(parts, "items"))
           /\ MergeWindows(parts).signature = Signature(Field(parts, "signature"))
<1>1. CASE Len(parts) # 1
  BY <1>1 DEF MergeWindows
<1>2. CASE Len(parts) = 1
  <2>1. MergeWindows(parts) = parts[1] /\ 1 \in 1 .. Len(parts) /\ 1 .. Len(parts) = {1} /\ 1 \in Nat
    BY <1>2 DEF MergeWindows
  <2>2. /\ parts[1].renews \in BOOLEAN \cup {Silent}
        /\ parts[1].signature \in {"unknown", "unsigned", "signed"}
    BY <2>1 DEF Answered
  <2>3. ASSUME NEW name
        PROVE  /\ DOMAIN Field(parts, name) = 1 .. 1
               /\ Field(parts, name)[1] = parts[1][name]
               /\ ToSet(Field(parts, name)) = {parts[1][name]}
    BY <1>2, <2>1, FieldIs
  <2>4. ASSUME NEW name, NEW o, NEW B, o \in B, parts[1][name] \in B => parts[1][name] = o
        PROVE  FirstOf(Field(parts, name), B, o) = parts[1][name]
    <3> DEFINE v == Field(parts, name)
    <3>1. DOMAIN v = 1 .. 1 /\ v[1] = parts[1][name]
      BY <2>3
    <3> HIDE DEF v
    <3>2. CASE v[1] \in B
      <4>1. \A k \in 1 .. 1 : v[k] \in B
        BY <3>2
      <4>2. FirstOf(v, B, o) = o
        BY <3>1, <4>1, <2>1, NoneIs
      <4> QED BY <3>1, <3>2, <4>2, <2>4 DEF v
    <3>3. CASE v[1] \notin B
      <4>0. PICK count \in Nat : count = 1
        OBVIOUS
      <4>1. PICK m \in 1 .. count : v[m] \notin B /\ \A k \in 1 .. (m - 1) : v[k] \in B
        BY <3>3, <4>0
      <4>4. DOMAIN v = 1 .. count
        BY <3>1, <4>0
      <4>2. FirstOf(v, B, o) = v[m]
        BY <4>1, <4>4, FirstOfThem
      <4>3. m = 1
        BY <4>0
      <4> QED BY <3>1, <4>2, <4>3 DEF v
    <3> QED BY <3>2, <3>3
  <2>5. parts[1].fact = FirstOf(Field(parts, "fact"), {Silent}, Silent)
    BY <2>4
  <2>6. parts[1].renews = Tri(Field(parts, "renews"))
    BY <2>2, <2>3, AnswersAssumption DEF Tri
  <2>7. parts[1].items = Union(Field(parts, "items"))
    BY <2>3 DEF Union
  <2>8. parts[1].signature = Signature(Field(parts, "signature"))
    <3>1. FirstOf(Field(parts, "signature"), {"unknown"}, "unknown") = parts[1].signature
      BY <2>4
    <3> QED BY <2>2, <2>3, <3>1 DEF Signature
  <2> QED BY <2>1, <2>5, <2>6, <2>7, <2>8
<1> QED BY <1>1, <1>2

(* What is said is said somewhere.                                         *)
LEMMA SaidSomewhere ==
    ASSUME NEW K \in Nat, NEW v, DOMAIN v = 1 .. K, NEW B, NEW o, FirstOf(v, B, o) # o
    PROVE  \E n \in 1 .. K : v[n] = FirstOf(v, B, o)
<1>1. CASE \A k \in 1 .. K : v[k] \in B
  BY <1>1, NoneIs
<1>2. ASSUME NEW n \in 1 .. K, v[n] \notin B, \A k \in 1 .. (n - 1) : v[k] \in B
      PROVE  v[n] = FirstOf(v, B, o)
  BY <1>2, FirstOfThem
<1> QED BY <1>1, <1>2, SaidOrNot

(* The first that is said stays when something is added behind it.         *)
LEMMA FirstStays ==
    ASSUME NEW K \in Nat, NEW M \in Nat, K = M + 1, NEW v, NEW w,
           DOMAIN v = 1 .. K, DOMAIN w = 1 .. M, \A k \in 1 .. M : w[k] = v[k],
           NEW B, NEW o \in B
    PROVE  /\ FirstOf(w, B, o) \notin B => FirstOf(v, B, o) = FirstOf(w, B, o)
           /\ FirstOf(v, B, o) \in B => FirstOf(w, B, o) \in B /\ v[K] \in B
<1>1. ASSUME NEW n \in 1 .. M, w[n] \notin B, \A k \in 1 .. (n - 1) : w[k] \in B
      PROVE  FirstOf(w, B, o) = w[n] /\ FirstOf(v, B, o) = w[n]
  <2>1. FirstOf(w, B, o) = w[n]
    BY <1>1, FirstOfThem
  <2>2. n \in 1 .. K /\ v[n] = w[n] /\ \A k \in 1 .. (n - 1) : k \in 1 .. M
    OBVIOUS
  <2>3. v[n] \notin B /\ \A k \in 1 .. (n - 1) : v[k] \in B
    BY <1>1, <2>2
  <2>4. FirstOf(v, B, o) = v[n]
    BY <2>2, <2>3, FirstOfThem
  <2> QED BY <2>1, <2>2, <2>4
<1>2. ASSUME \A k \in 1 .. M : w[k] \in B
      PROVE  FirstOf(w, B, o) = o /\ (FirstOf(v, B, o) \in B => v[K] \in B)
  <2>1. FirstOf(w, B, o) = o
    BY <1>2, NoneIs
  <2>2. CASE v[K] \notin B
    <3>1. K \in 1 .. K /\ \A k \in 1 .. (K - 1) : k \in 1 .. M
      OBVIOUS
    <3>2. \A k \in 1 .. (K - 1) : v[k] \in B
      BY <1>2, <3>1
    <3>3. FirstOf(v, B, o) = v[K]
      BY <2>2, <3>1, <3>2, FirstOfThem
    <3> QED BY <2>1, <2>2, <3>3
  <2> QED BY <2>1, <2>2
<1>3. \/ \A k \in 1 .. M : w[k] \in B
      \/ \E n \in 1 .. M : w[n] \notin B /\ \A k \in 1 .. (n - 1) : w[k] \in B
  BY SaidOrNot
<1>4. CASE \A k \in 1 .. M : w[k] \in B
  BY <1>2, <1>4
<1>5. CASE \E n \in 1 .. M : w[n] \notin B /\ \A k \in 1 .. (n - 1) : w[k] \in B
  <2>1. PICK n \in 1 .. M : w[n] \notin B /\ \A k \in 1 .. (n - 1) : w[k] \in B
    BY <1>5
  <2> QED BY <1>1, <2>1
<1> QED BY <1>3, <1>4, <1>5

(* A window more loses nothing (_merge_windows).                           *)
LEMMA OneMoreLosesNothing ==
    ASSUME NEW D, NEW parts \in Seq(D), Len(parts) > 1, Answered(parts)
    PROVE  LET before == MergeWindows(Front(parts))
               after == MergeWindows(parts)
           IN  /\ before.fact # Silent => after.fact = before.fact
               /\ before.renews = TRUE => after.renews = TRUE
               /\ before.signature = "signed" => after.signature = "signed"
               /\ before.items \subseteq after.items /\ Last(parts).items \subseteq after.items
               /\ after.renews = Silent => before.renews = Silent /\ Last(parts).renews = Silent
               /\ after.fact = Silent => before.fact = Silent /\ Last(parts).fact = Silent
<1> DEFINE K == Len(parts)
           front == Front(parts)
<1>1. /\ front \in Seq(D) /\ Len(front) = K - 1
      /\ \A k \in 1 .. (K - 1) : front[k] = parts[k]
      /\ Last(parts) = parts[K]
      /\ K \in Nat /\ K > 1 /\ K - 1 \in Nat /\ K - 1 >= 1
  BY DEF Front, Last
<1> HIDE DEF front
<1>2. Answered(front)
  BY <1>1 DEF Answered
<1>3. ASSUME NEW name
      PROVE  /\ DOMAIN Field(parts, name) = 1 .. K /\ DOMAIN Field(front, name) = 1 .. (K - 1)
             /\ \A k \in 1 .. K : Field(parts, name)[k] = parts[k][name]
             /\ \A k \in 1 .. (K - 1) : Field(front, name)[k] = parts[k][name]
             /\ ToSet(Field(parts, name)) = ToSet(Field(front, name)) \cup {Last(parts)[name]}
  <2>1. /\ DOMAIN Field(parts, name) = 1 .. K
        /\ \A k \in 1 .. K : Field(parts, name)[k] = parts[k][name]
        /\ ToSet(Field(parts, name)) = {parts[k][name] : k \in 1 .. K}
    BY FieldIs
  <2>2. /\ DOMAIN Field(front, name) = 1 .. (K - 1)
        /\ \A k \in 1 .. (K - 1) : Field(front, name)[k] = front[k][name]
        /\ ToSet(Field(front, name)) = {front[k][name] : k \in 1 .. (K - 1)}
    <3>1. /\ DOMAIN Field(front, name) = 1 .. Len(front)
          /\ \A k \in 1 .. Len(front) : Field(front, name)[k] = front[k][name]
          /\ ToSet(Field(front, name)) = {front[k][name] : k \in 1 .. Len(front)}
      BY <1>1, FieldIs
    <3> QED BY <1>1, <3>1
  <2>3. {front[k][name] : k \in 1 .. (K - 1)} = {parts[k][name] : k \in 1 .. (K - 1)}
    BY <1>1
  <2>4. 1 .. K = (1 .. (K - 1)) \cup {K}
    BY <1>1
  <2>5. {parts[k][name] : k \in 1 .. K} = {parts[k][name] : k \in 1 .. (K - 1)} \cup {parts[K][name]}
    BY <2>4
  <2> QED BY <1>1, <2>1, <2>2, <2>3, <2>5
<1> DEFINE before == MergeWindows(front)
           after == MergeWindows(parts)
<1>4. /\ before.fact = FirstOf(Field(front, "fact"), {Silent}, Silent)
      /\ before.renews = Tri(Field(front, "renews"))
      /\ before.items = Union(Field(front, "items"))
      /\ before.signature = Signature(Field(front, "signature"))
  BY <1>1, <1>2, MergedFields
<1>5. /\ after.fact = FirstOf(Field(parts, "fact"), {Silent}, Silent)
      /\ after.renews = Tri(Field(parts, "renews"))
      /\ after.items = Union(Field(parts, "items"))
      /\ after.signature = Signature(Field(parts, "signature"))
  <2>1. Len(parts) >= 1
    BY <1>1
  <2> QED BY <2>1, MergedFields
<1> HIDE DEF before, after
<1>6. /\ before.fact # Silent => after.fact = before.fact
      /\ after.fact = Silent => before.fact = Silent /\ Last(parts).fact = Silent
  <2> DEFINE M == K - 1
             v == Field(parts, "fact")
             w == Field(front, "fact")
  <2>1. /\ DOMAIN v = 1 .. K /\ DOMAIN w = 1 .. M
        /\ \A k \in 1 .. M : w[k] = v[k]
        /\ v[K] = Last(parts).fact
        /\ M \in Nat /\ K = M + 1
    <3>1. K \in 1 .. K /\ \A k \in 1 .. (K - 1) : k \in 1 .. K
      BY <1>1
    <3> QED BY <1>1, <1>3, <3>1
  <2>2. before.fact = FirstOf(w, {Silent}, Silent) /\ after.fact = FirstOf(v, {Silent}, Silent)
    BY <1>4, <1>5
  <2> HIDE DEF v, w, M, K
  <2>3. ASSUME NEW B, NEW o \in B
        PROVE  /\ FirstOf(w, B, o) \notin B => FirstOf(v, B, o) = FirstOf(w, B, o)
               /\ FirstOf(v, B, o) \in B => FirstOf(w, B, o) \in B /\ v[K] \in B
    BY <1>1, <2>1, FirstStays
  <2> QED BY <2>1, <2>2, <2>3
<1>7. /\ before.renews = TRUE => after.renews = TRUE
      /\ after.renews = Silent => before.renews = Silent /\ Last(parts).renews = Silent
  <2>1. ToSet(Field(parts, "renews")) = ToSet(Field(front, "renews")) \cup {Last(parts).renews}
    BY <1>3
  <2>2. Last(parts).renews \in BOOLEAN \cup {Silent}
    BY <1>1 DEF Answered
  <2> QED BY <1>4, <1>5, <2>1, <2>2, AnswersAssumption DEF Tri
<1>8. before.signature = "signed" => after.signature = "signed"
  <2> DEFINE M == K - 1
             w == Field(front, "signature")
  <2>0. ToSet(Field(parts, "signature")) = ToSet(w) \cup {Last(parts).signature}
    BY <1>3
  <2>3. DOMAIN w = 1 .. M
    BY <1>3
  <2>4. M \in Nat
    BY <1>1
  <2> HIDE DEF w, M, K
  <2>1. SUFFICES ASSUME before.signature = "signed" PROVE "signed" \in ToSet(w)
    BY <1>5, <2>0 DEF Signature
  <2>2. CASE "signed" \notin ToSet(w)
    <3>1. FirstOf(w, {"unknown"}, "unknown") = "signed"
      BY <1>4, <2>1, <2>2 DEF Signature, w
    <3>2. ASSUME NEW B, NEW o, FirstOf(w, B, o) # o PROVE \E n \in 1 .. M : w[n] = FirstOf(w, B, o)
      BY <2>3, <2>4, <3>2, SaidSomewhere
    <3>4. PICK n \in 1 .. M : w[n] = "signed"
      BY <3>1, <3>2
    <3> QED BY <2>3, <3>4 DEF ToSet
  <2> QED BY <2>2
<1>9. before.items \subseteq after.items /\ Last(parts).items \subseteq after.items
  <2>1. ToSet(Field(parts, "items")) = ToSet(Field(front, "items")) \cup {Last(parts).items}
    BY <1>3
  <2> QED BY <1>4, <1>5, <2>1 DEF Union
<1> QED BY <1>6, <1>7, <1>8, <1>9 DEF before, after, front

(* parts with those from the i-th to the j-th replaced by m.               *)
Replaced(parts, i, j, m) == SubSeq(parts, 1, i - 1) \o <<m>> \o SubSeq(parts, j + 1, Len(parts))

(* r is parts with those replaced by m.                                    *)
Replaces(parts, i, j, m, r) ==
    /\ Len(r) = Len(parts) - (j - i)
    /\ \A k \in 1 .. (i - 1) : r[k] = parts[k]
    /\ r[i] = m
    /\ \A k \in (i + 1) .. (Len(parts) - (j - i)) : r[k] = parts[k + (j - i)]

(* ... which is what replacing them gives.                                 *)
LEMMA ReplacedIs ==
    ASSUME NEW D, NEW parts \in Seq(D), NEW i \in 1 .. Len(parts), NEW j \in 1 .. Len(parts), i < j, NEW m \in D
    PROVE  Replaced(parts, i, j, m) \in Seq(D) /\ Replaces(parts, i, j, m, Replaced(parts, i, j, m))
<1> DEFINE K == Len(parts)
           pre == SubSeq(parts, 1, i - 1)
           rest == SubSeq(parts, j + 1, K)
           one == <<m>>
<1>1. /\ pre \in Seq(D) /\ Len(pre) = i - 1
      /\ \A k \in 1 .. (i - 1) : pre[k] = parts[k]
  OBVIOUS
<1>2. rest \in Seq(D) /\ Len(rest) = K - j
  OBVIOUS
<1>3. \A k \in 1 .. (K - j) : rest[k] = parts[j + k]
  <2> TAKE k \in 1 .. (K - j)
  <2>1. (j + 1) + k - 1 = j + k
    OBVIOUS
  <2> QED BY <2>1
<1>4. one \in Seq(D) /\ Len(one) = 1 /\ one[1] = m
  OBVIOUS
<1>5. Replaced(parts, i, j, m) = pre \o one \o rest
  BY DEF Replaced
<1>6. K \in Nat /\ i \in Nat /\ j \in Nat /\ i >= 1 /\ j <= K
  OBVIOUS
<1> HIDE DEF K, pre, rest, one
<1>i. pre \o one \in Seq(D) /\ Joins(pre, one, pre \o one)
  BY <1>1, <1>4, Joined
<1>j. /\ pre \o one \in Seq(D) /\ Len(pre \o one) = Len(pre) + Len(one)
      /\ \A k \in 1 .. Len(pre) : (pre \o one)[k] = pre[k]
      /\ \A k \in 1 .. Len(one) : (pre \o one)[Len(pre) + k] = one[k]
  BY <1>i DEF Joins
<1>7. pre \o one \in Seq(D) /\ Len(pre \o one) = i
  BY <1>1, <1>4, <1>6, <1>j
<1>8. (\A k \in 1 .. (i - 1) : (pre \o one)[k] = pre[k]) /\ (pre \o one)[i] = m
  <2>1. 1 \in 1 .. Len(one) /\ Len(pre) + 1 = i
    BY <1>1, <1>4, <1>6
  <2> QED BY <1>1, <1>4, <1>j, <2>1
<1> DEFINE head == pre \o one
           r == head \o rest
<1>9. head \in Seq(D) /\ Len(head) = i /\ head[i] = m /\ \A k \in 1 .. (i - 1) : head[k] = parts[k]
  BY <1>1, <1>7, <1>8
<1> HIDE DEF head
<1>l. head \o rest \in Seq(D) /\ Joins(head, rest, head \o rest)
  BY <1>2, <1>9, Joined
<1>k. /\ r \in Seq(D) /\ Len(r) = Len(head) + Len(rest)
      /\ \A k \in 1 .. Len(head) : r[k] = head[k]
      /\ \A k \in 1 .. Len(rest) : r[Len(head) + k] = rest[k]
  BY <1>l DEF Joins
<1>10. r \in Seq(D) /\ Len(r) = i + (K - j)
  BY <1>2, <1>9, <1>k
<1>11. \A k \in 1 .. i : r[k] = head[k]
  BY <1>9, <1>k
<1>12. \A k \in 1 .. (K - j) : r[i + k] = rest[k]
  BY <1>2, <1>9, <1>k
<1> HIDE DEF r
<1>13. i + (K - j) = K - (j - i) /\ \A k \in 1 .. (i - 1) : k \in 1 .. i
  BY <1>6
<1>14. i \in 1 .. i
  BY <1>6
<1>15. ASSUME NEW k \in (i + 1) .. (K - (j - i)) PROVE r[k] = parts[k + (j - i)]
  <2> DEFINE l == k - i
  <2>1. l \in 1 .. (K - j) /\ i + l = k /\ j + l = k + (j - i)
    BY <1>6
  <2> HIDE DEF l
  <2>2. r[i + l] = rest[l] /\ rest[l] = parts[j + l]
    BY <1>3, <1>12, <2>1
  <2> QED BY <2>1, <2>2
<1>16. \A k \in 1 .. (i - 1) : r[k] = parts[k]
  BY <1>9, <1>11, <1>13
<1>17. r[i] = m
  BY <1>9, <1>11, <1>14
<1>18. Replaced(parts, i, j, m) = r
  BY <1>5 DEF r, head
<1>19. Len(r) = K - (j - i)
  BY <1>10, <1>13
<1> QED BY <1>10, <1>15, <1>16, <1>17, <1>18, <1>19 DEF K, Replaces

(* ... and so its values of every field.                                   *)
LEMMA ReplacedField ==
    ASSUME NEW D, NEW parts \in Seq(D), NEW i \in 1 .. Len(parts), NEW j \in 1 .. Len(parts), i < j, NEW m \in D,
           NEW name
    PROVE  Cut(Field(parts, name), Len(parts), i, j, m[name], Field(Replaced(parts, i, j, m), name))
<1> DEFINE K == Len(parts)
           d == j - i
           M == K - d
           r == Replaced(parts, i, j, m)
           v == Field(parts, name)
           w == Field(r, name)
<1>0. /\ r \in Seq(D) /\ Len(r) = Len(parts) - (j - i)
      /\ \A k \in 1 .. (i - 1) : r[k] = parts[k]
      /\ r[i] = m
      /\ \A k \in (i + 1) .. (Len(parts) - (j - i)) : r[k] = parts[k + (j - i)]
  <2>1. r \in Seq(D) /\ Replaces(parts, i, j, m, r)
    BY ReplacedIs
  <2> QED BY <2>1 DEF Replaces
<1> HIDE DEF r
<1>1. r \in Seq(D) /\ Len(r) = M
  BY <1>0
<1>2. \A k \in 1 .. (i - 1) : r[k] = parts[k]
  BY <1>0
<1>3. r[i] = m
  BY <1>0
<1>4. \A k \in (i + 1) .. M : r[k] = parts[k + d]
  BY <1>0
<1>5. K \in Nat /\ d \in Nat /\ M \in Nat /\ i \in 1 .. M /\ M = K - d
  OBVIOUS
<1>6. DOMAIN v = 1 .. K /\ \A k \in 1 .. K : v[k] = parts[k][name]
  BY FieldIs
<1>7. DOMAIN w = 1 .. Len(r) /\ \A k \in 1 .. Len(r) : w[k] = r[k][name]
  BY <1>1, FieldIs
<1> HIDE DEF v, w
<1>8. Len(parts) = K /\ j - i = d /\ K - d = M
  OBVIOUS
<1> HIDE DEF K, d, M
<1>9. \A k \in 1 .. (i - 1) : k \in 1 .. M /\ k \in 1 .. K
  BY <1>5
<1>10. \A k \in (i + 1) .. M : k \in 1 .. M /\ k + d \in 1 .. K
  BY <1>5
<1>11. DOMAIN w = 1 .. M /\ \A k \in 1 .. M : w[k] = r[k][name]
  BY <1>1, <1>7
<1>12. \A k \in 1 .. (i - 1) : w[k] = v[k]
  BY <1>2, <1>6, <1>9, <1>11
<1>13. w[i] = m[name]
  BY <1>3, <1>5, <1>11
<1>14. \A k \in (i + 1) .. M : w[k] = v[k + d]
  BY <1>4, <1>6, <1>10, <1>11
<1>15. Cut(v, K, i, j, m[name], w)
  BY <1>6, <1>8, <1>11, <1>12, <1>13, <1>14 DEF Cut
<1> QED BY <1>15 DEF v, w, r, K

(* u is v between i and j.                                                 *)
MiddleOf(u, v, i, j) ==
    /\ DOMAIN u = 1 .. (j - i + 1) /\ \A k \in 1 .. (j - i + 1) : u[k] = v[k + i - 1]
    /\ ToSet(u) = {v[k] : k \in i .. j}

(* The values of the windows made one.                                     *)
LEMMA MiddleField ==
    ASSUME NEW D, NEW parts \in Seq(D), NEW i \in 1 .. Len(parts), NEW j \in 1 .. Len(parts), i < j, NEW name
    PROVE  /\ SubSeq(parts, i, j) \in Seq(D) /\ Len(SubSeq(parts, i, j)) = j - i + 1
           /\ MiddleOf(Field(SubSeq(parts, i, j), name), Field(parts, name), i, j)
<1> DEFINE K == Len(parts)
           L == j - i + 1
           mid == SubSeq(parts, i, j)
           v == Field(parts, name)
           u == Field(mid, name)
<1>1. mid \in Seq(D) /\ Len(mid) = L /\ K \in Nat /\ L \in Nat
  OBVIOUS
<1>2. \A k \in 1 .. L : mid[k] = parts[k + i - 1]
  <2> TAKE k \in 1 .. L
  <2>1. i + k - 1 = k + i - 1
    OBVIOUS
  <2> QED BY <2>1
<1> HIDE DEF mid
<1>3. DOMAIN v = 1 .. K /\ \A k \in 1 .. K : v[k] = parts[k][name]
  BY FieldIs
<1>4. DOMAIN u = 1 .. Len(mid) /\ (\A k \in 1 .. Len(mid) : u[k] = mid[k][name])
  BY <1>1, FieldIs
<1>5. \A k \in 1 .. L : k + i - 1 \in 1 .. K /\ k + i - 1 \in i .. j
  OBVIOUS
<1> HIDE DEF v, u
<1>6. DOMAIN u = 1 .. L /\ \A k \in 1 .. L : u[k] = v[k + i - 1]
  BY <1>1, <1>2, <1>3, <1>4, <1>5
<1>7. ASSUME NEW k \in i .. j PROVE \E l \in 1 .. L : k = l + i - 1
  <2>1. k - i + 1 \in 1 .. L /\ k = (k - i + 1) + i - 1
    OBVIOUS
  <2> QED BY <2>1
<1> HIDE DEF L
<1>8. ToSet(u) = {v[k] : k \in i .. j}
  <2>1. ToSet(u) = {u[k] : k \in 1 .. L}
    BY <1>6 DEF ToSet
  <2>2. \A x \in ToSet(u) : x \in {v[k] : k \in i .. j}
    BY <1>5, <1>6, <2>1
  <2>3. ASSUME NEW k \in i .. j PROVE v[k] \in ToSet(u)
    <3>1. PICK l \in 1 .. L : k = l + i - 1
      BY <1>7
    <3> QED BY <1>6, <2>1, <3>1
  <2> QED BY <2>2, <2>3
<1>9. MiddleOf(u, v, i, j)
  BY <1>6, <1>8 DEF MiddleOf, L
<1> QED BY <1>1, <1>9 DEF u, v, mid, L

(* The first that is said by the windows made one.                         *)
(* x is the first of v that is said between i and j, or else o.            *)
SaysFirst(v, i, j, B, o, x) ==
    /\ (\A k \in i .. j : v[k] \in B) => x = o
    /\ \A n \in i .. j : v[n] \notin B /\ (\A k \in i .. (n - 1) : v[k] \in B) => x = v[n]

(* ... and so is the first that the windows made one say.                  *)
LEMMA MiddleFirst ==
    ASSUME NEW D, NEW parts \in Seq(D), NEW i \in 1 .. Len(parts), NEW j \in 1 .. Len(parts), i < j, NEW name,
           NEW B, NEW o
    PROVE  SaysFirst(Field(parts, name), i, j, B, o, FirstOf(Field(SubSeq(parts, i, j), name), B, o))
<1> DEFINE L == j - i + 1
           v == Field(parts, name)
           u == Field(SubSeq(parts, i, j), name)
<1>0. MiddleOf(u, v, i, j)
  BY MiddleField
<1>1. L \in Nat /\ DOMAIN u = 1 .. L /\ \A k \in 1 .. L : u[k] = v[k + i - 1]
  BY <1>0 DEF MiddleOf
<1>2. \A k \in 1 .. L : k + i - 1 \in i .. j
  OBVIOUS
<1>3. \A n \in i .. j : n - i + 1 \in 1 .. L /\ (n - i + 1) + i - 1 = n
  OBVIOUS
<1> HIDE DEF L, u, v
<1>4. ASSUME \A k \in i .. j : v[k] \in B PROVE FirstOf(u, B, o) = o
  <2>1. \A k \in 1 .. L : u[k] \in B
    BY <1>1, <1>2, <1>4
  <2> QED BY <1>1, <2>1, NoneIs
<1>5. ASSUME NEW n \in i .. j, v[n] \notin B, \A k \in i .. (n - 1) : v[k] \in B
      PROVE  FirstOf(u, B, o) = v[n]
  <2> DEFINE l == n - i + 1
  <2>1. l \in 1 .. L /\ l + i - 1 = n
    BY <1>3
  <2>2. \A k \in 1 .. (l - 1) : k + i - 1 \in i .. (n - 1)
    OBVIOUS
  <2>3. \A k \in 1 .. (l - 1) : k \in 1 .. L
    BY <1>1, <2>1
  <2> HIDE DEF l
  <2>4. u[l] = v[n]
    BY <1>1, <2>1
  <2>5. \A k \in 1 .. (l - 1) : u[k] \in B
    BY <1>1, <1>5, <2>2, <2>3
  <2>7. u[l] \notin B
    BY <1>5, <2>4
  <2>6. FirstOf(u, B, o) = u[l]
    BY <1>1, <2>1, <2>5, <2>7, FirstOfThem
  <2> QED BY <2>4, <2>6
<1> QED BY <1>4, <1>5 DEF u, v, SaysFirst

(* The first that is said is the same however the windows are cut.         *)
LEMMA FirstIsTheSame ==
    ASSUME NEW D, NEW parts \in Seq(D), NEW i \in 1 .. Len(parts), NEW j \in 1 .. Len(parts), i < j, NEW m \in D,
           NEW name, NEW B, NEW o \in B, NEW other,
           m[name] = FirstOf(Field(SubSeq(parts, i, j), name), B, o)
    PROVE  FirstOf(Field(Replaced(parts, i, j, m), name), B, other) = FirstOf(Field(parts, name), B, other)
<1> DEFINE v == Field(parts, name)
           w == Field(Replaced(parts, i, j, m), name)
           x == m[name]
           K == Len(parts)
<1>1. K \in Nat /\ i \in 1 .. K /\ j \in 1 .. K
  OBVIOUS
<1>2. Cut(v, K, i, j, x, w)
  BY ReplacedField
<1>3. /\ (\A k \in i .. j : v[k] \in B) => x = o
      /\ \A n \in i .. j : v[n] \notin B /\ (\A k \in i .. (n - 1) : v[k] \in B) => x = v[n]
  <2>1. SaysFirst(v, i, j, B, o, x)
    BY MiddleFirst
  <2> QED BY <2>1 DEF SaysFirst
<1> HIDE DEF v, w, x, K
<1>4. FirstOf(w, B, other) = FirstOf(v, B, other)
  BY <1>1, <1>2, <1>3, FirstOfCut
<1> QED BY <1>4 DEF v, w

(* What is made of two windows and more, field by field.                   *)
Makes(parts, r) ==
    /\ r.fact = FirstOf(Field(parts, "fact"), {Silent}, Silent)
    /\ r.missing = {f \in Union(Field(parts, "missing")) : r.fact = Silent}
    /\ r.renews = Tri(Field(parts, "renews"))
    /\ r.items = Union(Field(parts, "items"))
    /\ r.signature = Signature(Field(parts, "signature"))
    /\ r.lifecycle = LastLifecycle(Field(parts, "lifecycle"))
    /\ r.docType = FirstOf(Field(parts, "docType"), {"OTHER"}, "OTHER")
    /\ r.amendment = Amendment(Field(parts, "amendment"))
    /\ r.confidence = Weakest(Field(parts, "confidence"))

(* ... which is what they become.                                          *)
LEMMA MergedWhole ==
    ASSUME NEW parts, Len(parts) # 1
    PROVE  Makes(parts, MergeWindows(parts))
BY DEF MergeWindows, Makes

(* ... and they are all there is.                                          *)
LEMMA MergedSame ==
    ASSUME NEW parts, NEW others, Len(parts) # 1, Len(others) # 1,
           LET a == MergeWindows(parts)
               b == MergeWindows(others)
           IN  /\ a.fact = b.fact /\ a.missing = b.missing /\ a.renews = b.renews /\ a.items = b.items
               /\ a.signature = b.signature /\ a.lifecycle = b.lifecycle /\ a.docType = b.docType
               /\ a.amendment = b.amendment /\ a.confidence = b.confidence
    PROVE  MergeWindows(parts) = MergeWindows(others)
<1> DEFINE a == MergeWindows(parts)
           b == MergeWindows(others)
<1>1. a = [fact |-> a.fact, missing |-> a.missing, renews |-> a.renews, items |-> a.items,
           signature |-> a.signature, lifecycle |-> a.lifecycle, docType |-> a.docType,
           amendment |-> a.amendment, confidence |-> a.confidence]
  BY DEF MergeWindows
<1>2. b = [fact |-> b.fact, missing |-> b.missing, renews |-> b.renews, items |-> b.items,
           signature |-> b.signature, lifecycle |-> b.lifecycle, docType |-> b.docType,
           amendment |-> b.amendment, confidence |-> b.confidence]
  BY DEF MergeWindows
<1>3. /\ a.fact = b.fact /\ a.missing = b.missing /\ a.renews = b.renews /\ a.items = b.items
      /\ a.signature = b.signature /\ a.lifecycle = b.lifecycle /\ a.docType = b.docType
      /\ a.amendment = b.amendment /\ a.confidence = b.confidence
  OBVIOUS
<1> HIDE DEF a, b
<1>4. a = b
  BY <1>1, <1>2, <1>3
<1> QED BY <1>4 DEF a, b

(* What a field's values say when some windows are read as one.            *)
SharedCut(name, parts, mid, r, x, before, middle, after) ==
    /\ ToSet(Field(parts, name)) = before \cup middle \cup after
    /\ ToSet(Field(mid, name)) = middle
    /\ middle # {}
    /\ ToSet(Field(r, name)) = before \cup {x} \cup after

(* ... whichever windows they are.                                         *)
LEMMA SaidSame ==
    ASSUME NEW D, NEW parts \in Seq(D), NEW i \in 1 .. Len(parts), NEW j \in 1 .. Len(parts), i < j, NEW m \in D,
           NEW name
    PROVE  \E before, middle, after :
               SharedCut(name, parts, SubSeq(parts, i, j), Replaced(parts, i, j, m), m[name], before, middle, after)
<1> DEFINE v == Field(parts, name)
           w == Field(Replaced(parts, i, j, m), name)
           x == m[name]
           K == Len(parts)
           before == {v[k] : k \in 1 .. (i - 1)}
           middle == {v[k] : k \in i .. j}
           after == {v[k] : k \in (j + 1) .. K}
<1>1. K \in Nat /\ i \in 1 .. K /\ j \in 1 .. K /\ i \in i .. j
  OBVIOUS
<1>2. Cut(v, K, i, j, x, w)
  BY ReplacedField
<1>3. ToSet(Field(SubSeq(parts, i, j), name)) = middle
  BY MiddleField DEF MiddleOf
<1> HIDE DEF v, w, x, K
<1>4. /\ ToSet(v) = {v[k] : k \in 1 .. (i - 1)} \cup {v[k] : k \in i .. j} \cup {v[k] : k \in (j + 1) .. K}
      /\ ToSet(w) = {v[k] : k \in 1 .. (i - 1)} \cup {x} \cup {v[k] : k \in (j + 1) .. K}
  BY <1>1, <1>2, CutSays
<1>5. middle # {}
  BY <1>1
<1>6. /\ ToSet(v) = before \cup middle \cup after
      /\ ToSet(w) = before \cup {x} \cup after
  BY <1>4
<1> HIDE DEF before, middle, after
<1>7. SharedCut(name, parts, SubSeq(parts, i, j), Replaced(parts, i, j, m), m[name], before, middle, after)
  BY <1>3, <1>5, <1>6 DEF v, w, x, SharedCut
<1> QED BY <1>7

(* Nothing is said only where no window says anything.                     *)
LEMMA AllSilent ==
    ASSUME NEW K \in Nat, NEW v, DOMAIN v = 1 .. K, NEW B, NEW o \in B, FirstOf(v, B, o) \in B
    PROVE  \A k \in 1 .. K : v[k] \in B
<1>1. ASSUME NEW n \in 1 .. K, v[n] \notin B, \A k \in 1 .. (n - 1) : v[k] \in B PROVE FALSE
  <2>1. FirstOf(v, B, o) = v[n]
    BY <1>1, FirstOfThem
  <2> QED BY <1>1, <2>1
<1> QED BY <1>1, SaidOrNot

(* Where something is said, what else would be taken is nothing.           *)
LEMMA OtherIsNothing ==
    ASSUME NEW v, NEW B, NEW o, NEW p, NEW n \in DOMAIN v, v[n] \notin B
    PROVE  FirstOf(v, B, o) = FirstOf(v, B, p)
BY DEF FirstOf

(* What is blank counts for the values there are.                          *)
LEMMA SameBlank ==
    ASSUME NEW v, NEW B, NEW C, NEW o, \A k \in DOMAIN v : v[k] \in B <=> v[k] \in C
    PROVE  FirstOf(v, B, o) = FirstOf(v, C, o)
<1>1. {k \in DOMAIN v : v[k] \notin B} = {k \in DOMAIN v : v[k] \notin C}
  OBVIOUS
<1> QED BY <1>1 DEF FirstOf

(* The first that is said, or else what the opening says, is the same      *)
(* however the windows are cut.                                            *)
LEMMA HeadOrFirst ==
    ASSUME NEW D, NEW parts \in Seq(D), NEW i \in 1 .. Len(parts), NEW j \in 1 .. Len(parts), i < j, NEW m \in D,
           NEW name, NEW B,
           LET u == Field(SubSeq(parts, i, j), name) IN m[name] = FirstOf(u, B, Head(u))
    PROVE  LET v == Field(parts, name)
               w == Field(Replaced(parts, i, j, m), name)
           IN  FirstOf(w, B, Head(w)) = FirstOf(v, B, Head(v))
<1> DEFINE v == Field(parts, name)
           w == Field(Replaced(parts, i, j, m), name)
           u == Field(SubSeq(parts, i, j), name)
           x == m[name]
           K == Len(parts)
           L == j - i + 1
<1>0. x = FirstOf(u, B, Head(u))
  OBVIOUS
<1>1. K \in Nat /\ i \in 1 .. K /\ j \in 1 .. K
  OBVIOUS
<1>2. Cut(v, K, i, j, x, w)
  BY ReplacedField
<1>3. /\ (\A k \in i .. j : v[k] \in B) => x = Head(u)
      /\ \A n \in i .. j : v[n] \notin B /\ (\A k \in i .. (n - 1) : v[k] \in B) => x = v[n]
  <2>1. SaysFirst(v, i, j, B, Head(u), x)
    BY <1>0, MiddleFirst
  <2> QED BY <2>1 DEF SaysFirst
<1>4. L \in Nat /\ L > 1 /\ DOMAIN u = 1 .. L /\ \A k \in 1 .. L : u[k] = v[k + i - 1]
  <2>1. L \in Nat /\ L > 1
    OBVIOUS
  <2>2. DOMAIN u = 1 .. (j - i + 1) /\ \A k \in 1 .. (j - i + 1) : u[k] = v[k + i - 1]
    BY MiddleField DEF MiddleOf
  <2> QED BY <2>1, <2>2
<1>5. Head(u) = v[i]
  <2>1. u \in Seq({u[k] : k \in 1 .. L})
    <3>1. u = [k \in DOMAIN SubSeq(parts, i, j) |-> SubSeq(parts, i, j)[k][name]]
      BY DEF Field
    <3> HIDE DEF u
    <3>2. u = [k \in 1 .. L |-> u[k]]
      BY <1>4, <3>1
    <3> HIDE DEF L
    <3> QED BY <1>4, <3>2, SMTT(40)
  <2>2. 1 \in 1 .. L /\ 1 + i - 1 = i
    BY <1>4
  <2>3. u[1] = v[i]
    BY <1>4, <2>2
  <2> HIDE DEF u, v
  <2> QED BY <2>1, <2>3
<1> HIDE DEF v, w, u, x, K, L
<1> DEFINE d == j - i
           M == K - d
<1>6. d \in Nat /\ M \in Nat /\ i \in 1 .. M /\ j = i + d /\ M = K - d
  BY <1>1
<1>7. /\ DOMAIN v = 1 .. K /\ DOMAIN w = 1 .. M
      /\ \A k \in 1 .. (i - 1) : w[k] = v[k]
      /\ w[i] = x
  BY <1>2 DEF Cut
<1> HIDE DEF d, M
<1>8. Head(v) = v[1] /\ Head(w) = w[1]
  OBVIOUS
<1>9. FirstOf(w, B, Head(v)) = FirstOf(v, B, Head(v))
  <2>1. (\A k \in i .. j : v[k] \in B) => x \in B
    BY <1>1, <1>3, <1>5
  <2> QED BY <1>1, <1>2, <1>3, <2>1, FirstOfCut
<1>10. Head(w) = Head(v) => FirstOf(w, B, Head(w)) = FirstOf(v, B, Head(v))
  BY <1>9
<1>11. ASSUME Head(w) # Head(v) PROVE FirstOf(w, B, Head(w)) = FirstOf(v, B, Head(v))
  <2>1. i = 1
    <3>1. CASE i > 1
      <4>1. 1 \in 1 .. (i - 1)
        BY <1>1, <3>1
      <4> QED BY <1>7, <1>8, <1>11, <4>1
    <3> QED BY <1>1, <3>1
  <2>2. x # v[1]
    BY <1>7, <1>8, <1>11, <2>1
  <2>3. v[1] \in B /\ ~ \A k \in i .. j : v[k] \in B
    <3>1. 1 \in i .. j /\ \A k \in i .. (1 - 1) : v[k] \in B
      BY <1>1, <2>1
    <3> QED BY <1>3, <1>5, <2>1, <2>2, <3>1
  <2>4. x \notin B
    <3>1. \E n \in i .. j : v[n] \notin B /\ \A k \in i .. (n - 1) : v[k] \in B
      <4> DEFINE T == {n \in i .. j : v[n] \notin B}
      <4>1. T # {} /\ T \subseteq Nat
        BY <1>1, <2>3
      <4>2. PICK n \in T : \A k \in T : n <= k
        <5> HIDE DEF T
        <5> QED BY <4>1, LeastNumber
      <4>3. \A k \in i .. (n - 1) : v[k] \in B
        BY <1>1, <4>2
      <4> QED BY <4>2, <4>3
    <3> QED BY <1>3, <3>1
  <2>5. 1 \in DOMAIN w /\ w[1] \notin B
    BY <1>6, <1>7, <2>1, <2>4
  <2>6. FirstOf(w, B, Head(w)) = FirstOf(w, B, Head(v))
    BY <2>5, OtherIsNothing
  <2> QED BY <1>9, <2>6
<1>12. FirstOf(w, B, Head(w)) = FirstOf(v, B, Head(v))
  BY <1>10, <1>11
<1> QED BY <1>12 DEF v, w

(* Windows that are read as one and merged with the rest give the same     *)
(* facts (_merge_windows).                                                 *)
LEMMA CutsGiveTheSame ==
    ASSUME NEW D, NEW parts \in Seq(D), Answered(parts),
           NEW i \in 1 .. Len(parts), NEW j \in 1 .. Len(parts), i < j
    PROVE  MergeWindows(Replaced(parts, i, j, MergeWindows(SubSeq(parts, i, j)))) = MergeWindows(parts)
<1>0. Len(parts) \in Nat /\ i \in Nat /\ j \in Nat /\ i >= 1 /\ j <= Len(parts) /\ i < j
  OBVIOUS
<1>9. Len(parts) # 1
  <2> DEFINE n == Len(parts)
  <2>1. n \in Nat /\ i \in Nat /\ j \in Nat /\ i >= 1 /\ j <= n /\ i < j
    BY <1>0
  <2> HIDE DEF n
  <2>2. n >= 2
    BY <2>1
  <2>3. n # 1
    BY <2>1, <2>2
  <2> QED BY <2>3 DEF n
<1>10. Len(parts) - (j - i) = 1 => i = 1 /\ j = Len(parts)
  BY <1>0
<1> DEFINE mid == SubSeq(parts, i, j)
           m == MergeWindows(mid)
           V == D \cup {m}
           r == Replaced(parts, i, j, m)
           whole == MergeWindows(parts)
           again == MergeWindows(r)
<1>1. parts \in Seq(V) /\ m \in V
  OBVIOUS
<1>2. Len(mid) = j - i + 1 /\ Len(mid) # 1
  OBVIOUS
<1>3. Makes(mid, m)
  BY <1>2, MergedWhole
<1>4. Len(parts) # 1 /\ Makes(parts, whole)
  <2> QED BY <1>9, MergedWhole
<1> HIDE DEF V, m
<1>5. r \in Seq(V) /\ Replaces(parts, i, j, m, r)
  BY <1>1, ReplacedIs
<1>6. Len(r) = Len(parts) - (j - i) /\ r[i] = m
  BY <1>5 DEF Replaces
<1>7. CASE Len(r) = 1
  <2>1. i = 1 /\ j = Len(parts)
    BY <1>10, <1>6, <1>7
  <2>2. mid = parts
    BY <2>1
  <2>3. again = r[1]
    BY <1>7 DEF MergeWindows
  <2> QED BY <1>6, <2>1, <2>2, <2>3 DEF m
<1>8. CASE Len(r) # 1
  <2>1. Makes(r, again)
    BY <1>8, MergedWhole
  <2> HIDE DEF whole, again
  <2>2. ASSUME NEW name
        PROVE  \E before, middle, after : SharedCut(name, parts, mid, r, m[name], before, middle, after)
    BY <1>1, SaidSame
  <2>3. ASSUME NEW name, NEW B, NEW o \in B, NEW other, m[name] = FirstOf(Field(mid, name), B, o)
        PROVE  FirstOf(Field(r, name), B, other) = FirstOf(Field(parts, name), B, other)
    BY <1>1, <2>3, FirstIsTheSame
  <2>4. again.fact = whole.fact
    <3>1. m.fact = FirstOf(Field(mid, "fact"), {Silent}, Silent)
      BY <1>3 DEF Makes
    <3>2. ASSUME NEW B, B = {Silent} PROVE FirstOf(Field(r, "fact"), B, Silent) = FirstOf(Field(parts, "fact"), B, Silent)
      <4>1. Silent \in B /\ m["fact"] = FirstOf(Field(mid, "fact"), B, Silent)
        BY <3>1, <3>2
      <4> QED BY <4>1, <2>3
    <3> QED BY <1>4, <2>1, <3>2 DEF Makes
  <2>5. again.docType = whole.docType
    <3>1. m.docType = FirstOf(Field(mid, "docType"), {"OTHER"}, "OTHER")
      BY <1>3 DEF Makes
    <3>2. ASSUME NEW B, B = {"OTHER"} PROVE FirstOf(Field(r, "docType"), B, "OTHER") = FirstOf(Field(parts, "docType"), B, "OTHER")
      <4>1. "OTHER" \in B /\ m["docType"] = FirstOf(Field(mid, "docType"), B, "OTHER")
        BY <3>1, <3>2
      <4> QED BY <4>1, <2>3
    <3> QED BY <1>4, <2>1, <3>2 DEF Makes
  <2>6. again.items = whole.items
    <3>0. PICK before, middle, after : SharedCut("items", parts, mid, r, m["items"], before, middle, after)
      BY <2>2
    <3>1. /\ ToSet(Field(parts, "items")) = before \cup middle \cup after
          /\ ToSet(Field(mid, "items")) = middle
          /\ middle # {}
          /\ ToSet(Field(r, "items")) = before \cup {m["items"]} \cup after
      BY <3>0 DEF SharedCut
    <3>2. m["items"] = UNION middle
      BY <1>3, <3>1 DEF Makes, Union
    <3>3. (UNION (before \cup {UNION middle} \cup after)) = (UNION (before \cup middle \cup after))
      OBVIOUS
    <3> QED BY <1>4, <2>1, <3>1, <3>2, <3>3 DEF Makes, Union
  <2>7. again.missing = whole.missing
    <3>0. PICK before, middle, after : SharedCut("missing", parts, mid, r, m["missing"], before, middle, after)
      BY <2>2
    <3>1. /\ ToSet(Field(parts, "missing")) = before \cup middle \cup after
          /\ ToSet(Field(mid, "missing")) = middle
          /\ middle # {}
          /\ ToSet(Field(r, "missing")) = before \cup {m["missing"]} \cup after
      BY <3>0 DEF SharedCut
    <3>2. /\ again.missing = {f \in UNION (before \cup {m.missing} \cup after) : again.fact = Silent}
          /\ whole.missing = {f \in UNION (before \cup middle \cup after) : whole.fact = Silent}
          /\ m.missing = {f \in UNION middle : m.fact = Silent}
      BY <1>3, <1>4, <2>1, <3>1 DEF Makes, Union
    <3>3. CASE whole.fact # Silent
      BY <2>4, <3>2, <3>3
    <3>4. CASE whole.fact = Silent
      <4>1. m.fact = Silent
        <5>1. \A k \in 1 .. Len(parts) : Field(parts, "fact")[k] = Silent
          <6>1. FirstOf(Field(parts, "fact"), {Silent}, Silent) = Silent
            BY <1>4, <3>4 DEF Makes
          <6>2. DOMAIN Field(parts, "fact") = 1 .. Len(parts) /\ Len(parts) \in Nat
            BY FieldIs
          <6>3. PICK B : B = {Silent}
            OBVIOUS
          <6>4. Silent \in B /\ FirstOf(Field(parts, "fact"), B, Silent) \in B
            BY <6>1, <6>3
          <6>5. \A k \in 1 .. Len(parts) : Field(parts, "fact")[k] \in B
            BY <6>2, <6>4, AllSilent
          <6> QED BY <6>3, <6>5
        <5>2. \A k \in 1 .. Len(mid) : Field(mid, "fact")[k] = Silent
          <6>1. ASSUME NEW k \in 1 .. Len(mid) PROVE Field(mid, "fact")[k] = Silent
            <7>1. Field(mid, "fact")[k] = Field(parts, "fact")[k + i - 1]
              BY <1>2, MiddleField DEF MiddleOf
            <7>2. k + i - 1 \in 1 .. Len(parts)
              BY <1>2
            <7> QED BY <5>1, <7>1, <7>2
          <6> QED BY <6>1
        <5>3. DOMAIN Field(mid, "fact") = 1 .. Len(mid) /\ Len(mid) \in Nat
          BY <1>2, MiddleField DEF MiddleOf
        <5>4. FirstOf(Field(mid, "fact"), {Silent}, Silent) = Silent
          BY <5>2, <5>3 DEF FirstOf
        <5> QED BY <1>3, <5>4 DEF Makes
      <4>2. m.missing = UNION middle
        BY <3>2, <4>1
      <4>3. (UNION (before \cup {UNION middle} \cup after)) = (UNION (before \cup middle \cup after))
        OBVIOUS
      <4> QED BY <2>4, <3>2, <3>4, <4>2, <4>3
    <3> QED BY <3>3, <3>4
  <2>8. again.renews = whole.renews
    <3>0. PICK before, middle, after : SharedCut("renews", parts, mid, r, m["renews"], before, middle, after)
      BY <2>2
    <3>1. /\ ToSet(Field(parts, "renews")) = before \cup middle \cup after
          /\ ToSet(Field(mid, "renews")) = middle
          /\ middle # {}
          /\ ToSet(Field(r, "renews")) = before \cup {m["renews"]} \cup after
      BY <3>0 DEF SharedCut
    <3>2. m.renews = IF TRUE \in middle THEN TRUE ELSE IF FALSE \in middle THEN FALSE ELSE Silent
      BY <1>3, <3>1 DEF Makes, Tri
    <3> QED BY <1>4, <2>1, <3>1, <3>2, AnswersAssumption DEF Makes, Tri
  <2>9. again.confidence = whole.confidence
    <3>0. PICK before, middle, after : SharedCut("confidence", parts, mid, r, m["confidence"], before, middle, after)
      BY <2>2
    <3>1. /\ ToSet(Field(parts, "confidence")) = before \cup middle \cup after
          /\ ToSet(Field(mid, "confidence")) = middle
          /\ middle # {}
          /\ ToSet(Field(r, "confidence")) = before \cup {m["confidence"]} \cup after
      BY <3>0 DEF SharedCut
    <3>2. before \cup middle \cup after \subseteq Grades
      <4>1. ToSet(Field(parts, "confidence")) = {parts[k]["confidence"] : k \in 1 .. Len(parts)}
        BY FieldIs
      <4> QED BY <3>1, <4>1 DEF Answered
    <3> DEFINE a == Field(parts, "confidence")
               b == Field(mid, "confidence")
               c == Field(r, "confidence")
               x == m["confidence"]
    <3>3. /\ whole.confidence = Weakest(a) /\ again.confidence = Weakest(c) /\ x = Weakest(b)
      BY <1>3, <1>4, <2>1 DEF Makes
    <3>4. /\ ToSet(a) = before \cup middle \cup after /\ ToSet(b) = middle
          /\ ToSet(c) = before \cup {x} \cup after
      BY <3>1
    <3> HIDE DEF a, b, c, x, mid, r
    <3>5. x \in middle /\ \A e \in middle : ConfidenceRank[x] <= ConfidenceRank[e]
      <4>1. ToSet(b) \subseteq Grades /\ ToSet(b) # {}
        BY <3>1, <3>2, <3>4
      <4>2. Weakest(b) \in ToSet(b) /\ \A e \in ToSet(b) : ConfidenceRank[Weakest(b)] <= ConfidenceRank[e]
        BY <4>1, WeakestIsThere
      <4> QED BY <3>3, <3>4, <4>2
    <3>6. /\ Weakest(a) \in ToSet(a)
          /\ \A e \in ToSet(a) : ConfidenceRank[Weakest(a)] <= ConfidenceRank[e]
      <4>1. ToSet(a) \subseteq Grades /\ ToSet(a) # {}
        BY <3>1, <3>2, <3>4
      <4> QED BY <4>1, WeakestIsThere
    <3>7. ToSet(c) \subseteq ToSet(a) /\ ToSet(c) \subseteq Grades /\ ToSet(a) \subseteq Grades
      BY <3>2, <3>4, <3>5
    <3>8. CASE Weakest(a) \in ToSet(c)
      <4>1. \A e \in ToSet(c) : ConfidenceRank[Weakest(a)] <= ConfidenceRank[e]
        BY <3>6, <3>7
      <4>2. Weakest(c) = Weakest(a)
        BY <3>7, <3>8, <4>1, WeakestIs
      <4> QED BY <3>3, <4>2
    <3>9. CASE Weakest(a) \notin ToSet(c)
      <4>1. Weakest(a) \in middle
        BY <3>4, <3>6, <3>9
      <4>2. ConfidenceRank[x] <= ConfidenceRank[Weakest(a)] /\ ConfidenceRank[Weakest(a)] <= ConfidenceRank[x]
        <5>1. x \in ToSet(a)
          BY <3>4, <3>5
        <5> QED BY <3>5, <3>6, <4>1, <5>1
      <4>3. x \in Grades /\ Weakest(a) \in Grades
        BY <3>6, <3>7, <3>4
      <4>4. x = Weakest(a)
        <5>1. ConfidenceRank["low"] = 0 /\ ConfidenceRank["medium"] = 1 /\ ConfidenceRank["high"] = 2
          BY DEF ConfidenceRank
        <5> QED BY <4>2, <4>3, <5>1 DEF Grades
      <4> QED BY <3>4, <3>9, <4>4
    <3> QED BY <3>8, <3>9
  <2>10. again.signature = whole.signature
    <3>0. PICK before, middle, after : SharedCut("signature", parts, mid, r, m["signature"], before, middle, after)
      BY <2>2
    <3>1. /\ ToSet(Field(parts, "signature")) = before \cup middle \cup after
          /\ ToSet(Field(mid, "signature")) = middle
          /\ middle # {}
          /\ ToSet(Field(r, "signature")) = before \cup {m["signature"]} \cup after
      BY <3>0 DEF SharedCut
    <3>2. /\ m.signature = Signature(Field(mid, "signature"))
          /\ whole.signature = Signature(Field(parts, "signature"))
          /\ again.signature = Signature(Field(r, "signature"))
      BY <1>3, <1>4, <2>1 DEF Makes
    <3>3. m.signature = "signed" <=> "signed" \in middle
      <4>1. CASE "signed" \in middle
        BY <3>1, <3>2, <4>1 DEF Signature
      <4>2. CASE "signed" \notin middle
        <5>0. DOMAIN Field(mid, "signature") = 1 .. Len(mid) /\ Len(mid) \in Nat
          BY <1>2, MiddleField DEF MiddleOf
        <5>1. ASSUME NEW B, NEW o, FirstOf(Field(mid, "signature"), B, o) # o
              PROVE  FirstOf(Field(mid, "signature"), B, o) \in ToSet(Field(mid, "signature"))
          <6> DEFINE u == Field(mid, "signature")
                     L == Len(mid)
          <6>1. DOMAIN u = 1 .. L /\ L \in Nat
            BY <5>0
          <6> HIDE DEF u, L
          <6>2. PICK n \in 1 .. L : u[n] = FirstOf(u, B, o)
            BY <6>1, <5>1, SaidSomewhere DEF u
          <6>3. u[n] \in ToSet(u)
            BY <6>1 DEF ToSet
          <6> QED BY <6>2, <6>3 DEF u
        <5>2. m.signature = FirstOf(Field(mid, "signature"), {"unknown"}, "unknown")
          BY <3>1, <3>2, <4>2 DEF Signature
        <5>3. m.signature # "signed"
          BY <3>1, <4>2, <5>1, <5>2
        <5> QED BY <4>2, <5>3
      <4> QED BY <4>1, <4>2
    <3>4. CASE "signed" \in before \cup middle \cup after
      BY <3>1, <3>2, <3>3, <3>4 DEF Signature
    <3>5. CASE "signed" \notin before \cup middle \cup after
      <4>1. m.signature = FirstOf(Field(mid, "signature"), {"unknown"}, "unknown")
        BY <3>1, <3>2, <3>5 DEF Signature
      <4>2. ASSUME NEW B, B = {"unknown"}
            PROVE FirstOf(Field(r, "signature"), B, "unknown") = FirstOf(Field(parts, "signature"), B, "unknown")
        <5>1. "unknown" \in B /\ m["signature"] = FirstOf(Field(mid, "signature"), B, "unknown")
          BY <4>1, <4>2
        <5> QED BY <5>1, <2>3
      <4> QED BY <3>1, <3>2, <3>3, <3>5, <4>2 DEF Signature
    <3> QED BY <3>4, <3>5
  <2>11. again.lifecycle = whole.lifecycle
    <3>1. PICK B : B = {"draft", "negotiation"}
      OBVIOUS
    <3>2. /\ m.lifecycle = FirstOf(Field(mid, "lifecycle"), B, Head(Field(mid, "lifecycle")))
          /\ whole.lifecycle = FirstOf(Field(parts, "lifecycle"), B, Head(Field(parts, "lifecycle")))
          /\ again.lifecycle = FirstOf(Field(r, "lifecycle"), B, Head(Field(r, "lifecycle")))
      BY <1>3, <1>4, <2>1, <3>1 DEF Makes, LastLifecycle
    <3>3. FirstOf(Field(r, "lifecycle"), B, Head(Field(r, "lifecycle")))
          = FirstOf(Field(parts, "lifecycle"), B, Head(Field(parts, "lifecycle")))
      <4>1. m["lifecycle"] = FirstOf(Field(mid, "lifecycle"), B, Head(Field(mid, "lifecycle")))
        BY <3>2
      <4> QED BY <1>1, <4>1, HeadOrFirst
    <3> QED BY <3>2, <3>3
  <2>12. again.amendment = whole.amendment
    <3> DEFINE v == Field(parts, "amendment")
               w == Field(r, "amendment")
               u == Field(mid, "amendment")
               B == {a \in (ToSet(u) \cup ToSet(v) \cup ToSet(w)) : a.type = "none"}
    <3>1. ASSUME NEW s, ToSet(s) \subseteq (ToSet(u) \cup ToSet(v) \cup ToSet(w))
          PROVE  Amendment(s) = FirstOf(s, B, Head(s))
      <4> DEFINE C == {a \in ToSet(s) : a.type = "none"}
      <4>1. \A k \in DOMAIN s : s[k] \in C <=> s[k] \in B
        BY <3>1 DEF ToSet
      <4>2. Amendment(s) = FirstOf(s, C, Head(s))
        BY DEF Amendment
      <4> HIDE DEF B, C
      <4> QED BY <4>1, <4>2, SameBlank
    <3>2. /\ m.amendment = Amendment(u) /\ whole.amendment = Amendment(v) /\ again.amendment = Amendment(w)
      BY <1>3, <1>4, <2>1 DEF Makes
    <3>3. /\ m["amendment"] = FirstOf(u, B, Head(u))
          /\ whole.amendment = FirstOf(v, B, Head(v))
          /\ again.amendment = FirstOf(w, B, Head(w))
      <4> HIDE DEF u, v, w, B
      <4> QED BY <3>1, <3>2
    <3> HIDE DEF B
    <3>4. FirstOf(w, B, Head(w)) = FirstOf(v, B, Head(v))
      BY <1>1, <3>3, HeadOrFirst
    <3> QED BY <3>3, <3>4
  <2>13. LET a == MergeWindows(r)
             b == MergeWindows(parts)
         IN  /\ a.fact = b.fact /\ a.missing = b.missing /\ a.renews = b.renews /\ a.items = b.items
             /\ a.signature = b.signature /\ a.lifecycle = b.lifecycle /\ a.docType = b.docType
             /\ a.amendment = b.amendment /\ a.confidence = b.confidence
    BY <2>4, <2>5, <2>6, <2>7, <2>8, <2>9, <2>10, <2>11, <2>12 DEF whole, again
  <2>14. MergeWindows(r) = MergeWindows(parts)
    <3> HIDE DEF r, mid
    <3> QED BY <1>4, <1>8, <2>13, MergedSame
  <2> QED BY <2>14 DEF m
<1> QED BY <1>7, <1>8 DEF m

(* The windows read are of the answers there are.                          *)
FactInv == found \in Seq(Answers)

(* None is read at first,                                                  *)
LEMMA FactStarts == FactsInit => FactInv
BY DEF FactsInit, FactInv

(* and each that is read is one of them.                                   *)
LEMMA FactStep ==
    ASSUME FactInv, FactsNext
    PROVE  FactInv'
<1>1. PICK answer \in Answers : found' = Append(found, answer)
  BY DEF FactsNext, ReadWindow
<1> QED BY <1>1 DEF FactInv

(* However a document is cut into windows, its facts are the same and each *)
(* counts (_merge_windows).                                                *)
LEMMA FactGives ==
    ASSUME FactInv
    PROVE  FactsHold
<1> DEFINE parts == found
<1>0. parts \in Seq(Answers) /\ Answered(parts)
  BY ReadAreAnswered DEF FactInv
<1>1. CutsAreNothing
  <2>1. ASSUME NEW i \in 1 .. Len(parts), NEW j \in 1 .. Len(parts), i < j
        PROVE  MergeWindows(Replaced(parts, i, j, MergeWindows(SubSeq(parts, i, j)))) = MergeWindows(parts)
    <3> HIDE DEF parts
    <3> QED BY <1>0, <2>1, CutsGiveTheSame
  <2>2. DOMAIN found = 1 .. Len(found)
    BY DEF FactInv
  <2> QED BY <2>1, <2>2 DEF CutsAreNothing, Replaced
<1>2. NothingLost
  <2>1. CASE Len(found) > 1
    <3>1. LET before == MergeWindows(Front(parts))
              after == MergeWindows(parts)
          IN  /\ before.fact # Silent => after.fact = before.fact
              /\ before.renews = TRUE => after.renews = TRUE
              /\ before.signature = "signed" => after.signature = "signed"
              /\ before.items \subseteq after.items /\ Last(parts).items \subseteq after.items
              /\ after.renews = Silent => before.renews = Silent /\ Last(parts).renews = Silent
              /\ after.fact = Silent => before.fact = Silent /\ Last(parts).fact = Silent
      <4>1. Len(parts) > 1
        BY <2>1
      <4> HIDE DEF parts
      <4> QED BY <1>0, <4>1, OneMoreLosesNothing
    <3> QED BY <3>1 DEF NothingLost
  <2>2. CASE ~ (Len(found) > 1)
    BY <2>2 DEF NothingLost
  <2> QED BY <2>1, <2>2
<1> QED BY <1>1, <1>2 DEF FactsHold

(***************************************************************************)
(* Money (classify.py _check_money, _reconcile)                            *)
(***************************************************************************)

(* F sums s up, amount by amount.                                          *)
Adds(s, F) ==
    /\ F \in [0 .. Len(s) -> Int] /\ F[0] = 0
    /\ \A n \in 1 .. Len(s) : F[n] = F[n - 1] + s[n]

(* ... and gives the total.                                                *)
LEMMA TotalOf ==
    ASSUME NEW s \in Seq(Int)
    PROVE  \E F : Adds(s, F) /\ Total(s) = F[Len(s)]
<1> DEFINE K == Len(s)
           none == 0
           more(n, v) == v + s[n]
           step == [p \in (1 .. K) \X Int |-> more(p[1], p[2])]
<1>1. K \in Nat /\ none \in Int
  OBVIOUS
<1>2. \A n \in 1 .. K, v \in Int : more(n, v) \in Int
  OBVIOUS
<1> HIDE DEF none, K, more
<1>3. step \in Steps(Int, K) /\ \A n \in 1 .. K, v \in Int : step[<<n, v>>] = more(n, v)
  BY <1>2 DEF Steps
<1> HIDE DEF step
<1>4. PICK f \in Runs(Int, K) : Unfolds(f, K, none, step)
  BY <1>1, <1>3, Recursion
<1>5. f \in [0 .. K -> Int] /\ f[0] = none /\ \A n \in 1 .. K : f[n] = step[<<n, f[n - 1]>>]
  BY <1>4 DEF Runs, Unfolds
<1>6. ASSUME NEW n \in 0 .. K PROVE f[n] = IF n = 0 THEN none ELSE more(n, f[n - 1])
  <2>1. CASE n = 0
    BY <1>5, <2>1
  <2>2. CASE n # 0
    <3>1. n \in 1 .. K /\ n - 1 \in 0 .. K
      BY <1>1, <2>2
    <3> QED BY <1>3, <1>5, <2>2, <3>1
  <2> QED BY <2>1, <2>2
<1>7. f = [n \in 0 .. K |-> IF n = 0 THEN none ELSE more(n, f[n - 1])]
  BY <1>5, <1>6
<1> DEFINE F == CHOOSE g : g = [n \in 0 .. K |-> IF n = 0 THEN none ELSE more(n, g[n - 1])]
<1>8. F = [n \in 0 .. K |-> IF n = 0 THEN none ELSE more(n, F[n - 1])]
  BY <1>7
<1>9. Total(s) = F[K]
  BY DEF Total, none, more, K
<1> HIDE DEF F
<1>10. F[0] = none /\ \A n \in 1 .. K : F[n] = more(n, F[n - 1])
  BY <1>1, <1>8
<1>11. \A n \in 0 .. K : F[n] \in Int
  <2> DEFINE T == {n \in Nat : n <= K => F[n] \in Int}
  <2>1. 0 \in T
    BY <1>1, <1>10
  <2>2. ASSUME NEW n \in Nat, n \in T PROVE n + 1 \in T
    <3>1. CASE n + 1 <= K
      <4>1. n + 1 \in 1 .. K /\ (n + 1) - 1 = n /\ F[n] \in Int
        BY <1>1, <2>2, <3>1
      <4>2. F[n + 1] = more(n + 1, F[n])
        BY <1>10, <4>1
      <4> QED BY <1>2, <4>1, <4>2, SMTT(40)
    <3>2. CASE ~ (n + 1 <= K)
      BY <3>2
    <3> QED BY <3>1, <3>2
  <2>3. \A n \in Nat : n \in T
    <3> HIDE DEF T
    <3> QED BY <2>1, <2>2, Counting
  <2> QED BY <1>1, <2>3
<1>12. F \in [0 .. K -> Int]
  BY <1>8, <1>11
<1>13. \A n \in 1 .. K : F[n] = F[n - 1] + s[n]
  BY <1>10 DEF more
<1> QED BY <1>9, <1>10, <1>12, <1>13 DEF Adds, none, K

(* Whatever sums them up gives the total.                                  *)
LEMMA AddsToTotal ==
    ASSUME NEW s \in Seq(Int), NEW G, Adds(s, G)
    PROVE  Total(s) = G[Len(s)]
<1>1. PICK F : Adds(s, F) /\ Total(s) = F[Len(s)]
  BY TotalOf
<1> DEFINE K == Len(s)
           T == {n \in Nat : n <= K => F[n] = G[n]}
<1>2. 0 \in T
  BY <1>1 DEF Adds
<1>3. ASSUME NEW n \in Nat, n \in T PROVE n + 1 \in T
  <2>1. CASE n + 1 <= K
    <3>1. n + 1 \in 1 .. K /\ (n + 1) - 1 = n /\ F[n] = G[n]
      BY <1>3, <2>1
    <3>2. F[n + 1] = F[n] + s[n + 1] /\ G[n + 1] = G[n] + s[n + 1]
      BY <1>1, <3>1 DEF Adds
    <3> QED BY <3>1, <3>2
  <2>2. CASE ~ (n + 1 <= K)
    BY <2>2
  <2> QED BY <2>1, <2>2
<1>4. \A n \in Nat : n \in T
  <2> HIDE DEF T
  <2> QED BY <1>2, <1>3, Counting
<1>5. K \in Nat
  OBVIOUS
<1> QED BY <1>1, <1>4, <1>5

(* What is left when one is taken out.                                     *)
LEMMA TakenOut ==
    ASSUME NEW s \in Seq(Int), NEW m \in 1 .. Len(s)
    PROVE  /\ RemoveAt(s, m) \in Seq(Int) /\ Len(RemoveAt(s, m)) = Len(s) - 1
           /\ \A n \in 1 .. (Len(s) - 1) : RemoveAt(s, m)[n] = IF n < m THEN s[n] ELSE s[n + 1]
<1> DEFINE K == Len(s)
           pre == SubSeq(s, 1, m - 1)
           rest == SubSeq(s, m + 1, K)
<1>1. pre \in Seq(Int) /\ Len(pre) = m - 1 /\ \A k \in 1 .. (m - 1) : pre[k] = s[k]
  OBVIOUS
<1>2. rest \in Seq(Int) /\ Len(rest) = K - m
  OBVIOUS
<1>3. \A k \in 1 .. (K - m) : rest[k] = s[m + k]
  <2> TAKE k \in 1 .. (K - m)
  <2>1. (m + 1) + k - 1 = m + k
    OBVIOUS
  <2> QED BY <2>1
<1>4. K \in Nat /\ m \in 1 .. K
  OBVIOUS
<1>5. RemoveAt(s, m) = pre \o rest
  BY DEF RemoveAt
<1> HIDE DEF pre, rest, K
<1>j. pre \o rest \in Seq(Int) /\ Joins(pre, rest, pre \o rest)
  BY <1>1, <1>2, Joined
<1>6. /\ pre \o rest \in Seq(Int) /\ Len(pre \o rest) = Len(pre) + Len(rest)
      /\ \A k \in 1 .. Len(pre) : (pre \o rest)[k] = pre[k]
      /\ \A k \in 1 .. Len(rest) : (pre \o rest)[Len(pre) + k] = rest[k]
  BY <1>j DEF Joins
<1> DEFINE r == pre \o rest
<1>7. /\ r \in Seq(Int) /\ Len(r) = Len(pre) + Len(rest)
      /\ \A k \in 1 .. Len(pre) : r[k] = pre[k]
      /\ \A k \in 1 .. Len(rest) : r[Len(pre) + k] = rest[k]
  BY <1>6
<1> HIDE DEF r
<1>8. Len(r) = K - 1
  BY <1>1, <1>2, <1>4, <1>7
<1>9. ASSUME NEW n \in 1 .. (K - 1) PROVE r[n] = IF n < m THEN s[n] ELSE s[n + 1]
  <2>1. CASE n < m
    <3>1. n \in 1 .. (m - 1)
      BY <1>4, <2>1
    <3> QED BY <1>1, <1>7, <2>1, <3>1
  <2>2. CASE ~ (n < m)
    <3> DEFINE k == n - (m - 1)
    <3>1. k \in 1 .. (K - m) /\ (m - 1) + k = n /\ m + k = n + 1
      BY <1>4, <2>2
    <3> HIDE DEF k
    <3>2. r[(m - 1) + k] = rest[k] /\ rest[k] = s[m + k]
      BY <1>1, <1>2, <1>3, <1>7, <3>1
    <3> QED BY <2>2, <3>1, <3>2
  <2> QED BY <2>1, <2>2
<1>10. RemoveAt(s, m) = r
  BY <1>5 DEF r
<1> QED BY <1>7, <1>8, <1>9, <1>10 DEF K

(* The total of what is left when one is taken out.                        *)
LEMMA TotalWithout ==
    ASSUME NEW s \in Seq(Int), NEW m \in 1 .. Len(s)
    PROVE  Total(RemoveAt(s, m)) = Total(s) - s[m]
<1> DEFINE K == Len(s)
           r == RemoveAt(s, m)
<1>1. /\ r \in Seq(Int) /\ Len(r) = K - 1
      /\ \A n \in 1 .. (K - 1) : r[n] = IF n < m THEN s[n] ELSE s[n + 1]
  BY TakenOut
<1>2. PICK F : Adds(s, F) /\ Total(s) = F[K]
  BY TotalOf
<1>3. /\ F \in [0 .. K -> Int] /\ F[0] = 0 /\ \A n \in 1 .. K : F[n] = F[n - 1] + s[n]
      /\ K \in Nat /\ m \in 1 .. K /\ \A n \in 1 .. K : s[n] \in Int
  BY <1>2 DEF Adds
<1> HIDE DEF r, K
<1> DEFINE G == [n \in 0 .. (K - 1) |-> IF n < m THEN F[n] ELSE F[n + 1] - s[m]]
<1>4. \A n \in 0 .. (K - 1) : G[n] \in Int
  BY <1>3, SMTT(40)
<1>5. G \in [0 .. (K - 1) -> Int]
  BY <1>4
<1>6. G[0] = 0
  BY <1>3
<1>7. ASSUME NEW n \in 1 .. (K - 1) PROVE G[n] = G[n - 1] + r[n]
  <2>1. n \in 1 .. K /\ n + 1 \in 1 .. K /\ n - 1 \in 0 .. (K - 1) /\ n \in 0 .. (K - 1) /\ (n + 1) - 1 = n
    BY <1>3
  <2>2. F[n] = F[n - 1] + s[n] /\ F[n + 1] = F[n] + s[n + 1] /\ F[n] \in Int /\ F[n - 1] \in Int /\ F[n + 1] \in Int
    <3>1. n \in 0 .. K /\ n - 1 \in 0 .. K /\ n + 1 \in 0 .. K
      BY <1>3
    <3>2. F[n + 1] = F[(n + 1) - 1] + s[n + 1]
      BY <1>3, <2>1
    <3> QED BY <1>3, <2>1, <3>1, <3>2
  <2>3. CASE n < m
    <3>1. G[n] = F[n] /\ n - 1 < m
      BY <2>1, <2>3
    <3>2. G[n - 1] = F[n - 1] /\ r[n] = s[n]
      BY <1>1, <2>1, <2>3, <3>1
    <3> QED BY <2>2, <3>1, <3>2
  <2>4. CASE n = m
    <3>1. G[n] = F[n + 1] - s[m] /\ ~ (n < m) /\ n - 1 < m
      BY <1>3, <2>1, <2>4
    <3>2. G[n - 1] = F[n - 1] /\ r[n] = s[n + 1]
      BY <1>1, <2>1, <3>1
    <3>3. s[n] \in Int /\ s[n + 1] \in Int
      BY <1>3, <2>1
    <3> QED BY <2>2, <2>4, <3>1, <3>2, <3>3
  <2>5. CASE n > m
    <3>1. ~ (n < m) /\ ~ (n - 1 < m) /\ (n - 1) + 1 = n
      BY <1>3, <2>5
    <3>2. G[n] = F[n + 1] - s[m] /\ G[n - 1] = F[n] - s[m] /\ r[n] = s[n + 1]
      BY <1>1, <2>1, <3>1
    <3>3. s[m] \in Int /\ s[n + 1] \in Int
      BY <1>3, <2>1
    <3> HIDE DEF G
    <3> QED BY <2>2, <3>2, <3>3
  <2> QED BY <1>3, <2>3, <2>4, <2>5
<1>8. K - 1 \in 0 .. (K - 1) /\ G[K - 1] = F[K] - s[m]
  <2>1. K - 1 \in 0 .. (K - 1) /\ (K - 1) + 1 = K
    BY <1>3
  <2>2. CASE K - 1 < m
    <3>1. m = K
      BY <1>3, <2>2
    <3>2. G[K - 1] = F[K - 1]
      BY <2>1, <2>2
    <3>3. K \in 1 .. K /\ K \in 0 .. K /\ K - 1 \in 0 .. K
      BY <1>3
    <3>4. F[K] = F[K - 1] + s[K] /\ s[K] \in Int /\ F[K - 1] \in Int
      BY <1>3, <3>3
    <3> QED BY <2>1, <3>1, <3>2, <3>4
  <2>3. CASE ~ (K - 1 < m)
    BY <2>1, <2>3
  <2> QED BY <2>2, <2>3, <2>1
<1>9. Adds(r, G)
  <2> HIDE DEF G
  <2> QED BY <1>1, <1>5, <1>6, <1>7 DEF Adds
<1> HIDE DEF G
<1>10. Total(r) = G[K - 1]
  BY <1>1, <1>9, AddsToTotal
<1> QED BY <1>2, <1>8, <1>10 DEF r

(* The amounts in the other order.                                         *)
LEMMA Reversed ==
    ASSUME NEW s \in Seq(Int)
    PROVE  /\ Reverse(s) \in Seq(Int) /\ Len(Reverse(s)) = Len(s)
           /\ \A n \in 1 .. Len(s) : Reverse(s)[n] = s[(Len(s) - n) + 1]
<1> DEFINE K == Len(s)
<1>1. K \in Nat /\ \A n \in 1 .. K : (K - n) + 1 \in 1 .. K /\ s[n] \in Int
  OBVIOUS
<1>2. Reverse(s) = [n \in 1 .. K |-> s[(K - n) + 1]]
  BY DEF Reverse
<1> HIDE DEF K
<1>3. \A n \in 1 .. K : s[(K - n) + 1] \in Int
  BY <1>1
<1>4. Reverse(s) \in Seq(Int) /\ Len(Reverse(s)) = K
  BY <1>1, <1>2, <1>3
<1>5. \A n \in 1 .. K : Reverse(s)[n] = s[(K - n) + 1]
  BY <1>2
<1> QED BY <1>4, <1>5 DEF K

(* Their total is the same.                                                *)
LEMMA TotalReversed ==
    ASSUME NEW s \in Seq(Int)
    PROVE  Total(Reverse(s)) = Total(s)
<1> DEFINE K == Len(s)
           r == Reverse(s)
<1>1. r \in Seq(Int) /\ Len(r) = K /\ \A n \in 1 .. K : r[n] = s[(K - n) + 1]
  BY Reversed
<1>2. PICK F : Adds(s, F) /\ Total(s) = F[K]
  BY TotalOf
<1>3. /\ F \in [0 .. K -> Int] /\ F[0] = 0 /\ \A n \in 1 .. K : F[n] = F[n - 1] + s[n]
      /\ K \in Nat /\ \A n \in 1 .. K : s[n] \in Int
  BY <1>2 DEF Adds
<1> HIDE DEF r, K
<1> DEFINE G == [n \in 0 .. K |-> F[K] - F[K - n]]
<1>4. K \in 0 .. K /\ F[K] \in Int /\ \A n \in 0 .. K : K - n \in 0 .. K /\ F[K - n] \in Int
  <2>1. K \in 0 .. K /\ \A n \in 0 .. K : K - n \in 0 .. K
    BY <1>3
  <2> QED BY <1>3, <2>1
<1>5. G \in [0 .. K -> Int]
  <2>1. ASSUME NEW n \in 0 .. K PROVE F[K] - F[K - n] \in Int
    <3>1. F[K - n] \in Int /\ F[K] \in Int
      BY <1>4
    <3>2. PICK a \in Int, b \in Int : a = F[K] /\ b = F[K - n]
      BY <3>1
    <3> QED BY <3>2
  <2> QED BY <2>1
<1>6. G[0] = 0
  <2>1. 0 \in 0 .. K /\ K - 0 = K
    BY <1>3
  <2>2. G[0] = F[K] - F[K - 0]
    BY <2>1
  <2> QED BY <1>4, <2>1, <2>2
<1>7. ASSUME NEW n \in 1 .. K PROVE G[n] = G[n - 1] + r[n]
  <2>1. n \in 0 .. K /\ n - 1 \in 0 .. K /\ K - (n - 1) = (K - n) + 1 /\ (K - n) + 1 \in 1 .. K /\ ((K - n) + 1) - 1 = K - n
    BY <1>3
  <2>2. G[n] = F[K] - F[K - n] /\ G[n - 1] = F[K] - F[(K - n) + 1]
    BY <2>1
  <2>3. F[(K - n) + 1] = F[K - n] + s[(K - n) + 1]
    BY <1>3, <2>1
  <2>4. r[n] = s[(K - n) + 1] /\ s[(K - n) + 1] \in Int
    BY <1>1, <1>3, <2>1
  <2>5. F[K - n] \in Int /\ F[K] \in Int
    BY <1>4, <2>1
  <2> QED BY <2>2, <2>3, <2>4, <2>5
<1>8. G[K] = F[K]
  <2>1. K - K = 0
    BY <1>3
  <2>2. G[K] = F[K] - F[K - K]
    BY <1>4
  <2> QED BY <1>3, <1>4, <2>1, <2>2
<1>9. Adds(r, G)
  <2> HIDE DEF G
  <2> QED BY <1>1, <1>5, <1>6, <1>7 DEF Adds
<1> HIDE DEF G
<1>10. Total(r) = G[K]
  BY <1>1, <1>9, AddsToTotal
<1> QED BY <1>2, <1>8, <1>10 DEF r

(* Figures and line items are of the kinds the models give.                *)
MoneyInv ==
    /\ figures \in Figures /\ own \subseteq {f \in Compares : figures[f] # NoFigure}
    /\ lines \in Seq(LineItems)

(* Figures are given at first,                                             *)
LEMMA MoneyStarts == MoneyInit => MoneyInv
BY DEF MoneyInit, MoneyInv

(* and line items are added.                                               *)
LEMMA MoneyStep ==
    ASSUME MoneyInv, MoneyNext
    PROVE  MoneyInv'
<1>1. PICK line \in LineItems : lines' = Append(lines, line) /\ UNCHANGED <<figures, own>>
  BY DEF MoneyNext, AddLine
<1> QED BY <1>1 DEF MoneyInv

(* The amounts there are, before and after the check of their scale.       *)
LEMMA AmountsAre ==
    ASSUME MoneyInv
    PROVE  /\ Amounts(lines) \in Seq(Int) /\ Len(Amounts(lines)) = Len(lines)
           /\ \A i \in 1 .. Len(lines) : Amounts(lines)[i] = lines[i].amount
           /\ Amounts(FixedLines) \in Seq(Int) /\ Len(Amounts(FixedLines)) = Len(lines)
           /\ \A i \in 1 .. Len(lines) :
                  /\ Amounts(FixedLines)[i] = FixedLines[i].amount
                  /\ FixedLines[i].amount = FixScale(lines[i].amount, lines[i].quoted)
           /\ DOMAIN lines = 1 .. Len(lines) /\ Len(lines) \in Nat
<1> DEFINE K == Len(lines)
<1>1. K \in Nat /\ DOMAIN lines = 1 .. K
  BY DEF MoneyInv
<1>2. \A i \in 1 .. K : lines[i].amount \in Int /\ lines[i].quoted \in Figure /\ lines[i] \in [amount : Int, quoted : Figure]
  BY FiguresAssumption DEF MoneyInv
<1>3. \A i \in 1 .. K : FixScale(lines[i].amount, lines[i].quoted) \in Int
  BY <1>2 DEF FixScale, ScaleDropped, Figure
<1> HIDE DEF K
<1>4. Amounts(lines) = [i \in 1 .. K |-> lines[i].amount]
  BY <1>1 DEF Amounts
<1>5. DOMAIN FixedLines = 1 .. K
  BY <1>1 DEF FixedLines
<1>6. ASSUME NEW i \in 1 .. K PROVE FixedLines[i].amount = FixScale(lines[i].amount, lines[i].quoted)
  BY <1>1, <1>2 DEF FixedLines
<1>7. Amounts(FixedLines) = [i \in 1 .. K |-> FixScale(lines[i].amount, lines[i].quoted)]
  BY <1>5, <1>6 DEF Amounts
<1>8. \A i \in 1 .. K : lines[i].amount \in Int
  BY <1>2
<1>9. Amounts(lines) \in Seq(Int) /\ Len(Amounts(lines)) = K
  BY <1>1, <1>4, <1>8
<1>10. Amounts(FixedLines) \in Seq(Int) /\ Len(Amounts(FixedLines)) = K
  BY <1>1, <1>3, <1>7
<1> QED BY <1>1, <1>4, <1>6, <1>7, <1>9, <1>10 DEF K

(* The parts that are added up: all, or all but one that is the total.     *)
LEMMA PartsAre ==
    ASSUME NEW s \in Seq(Int), NEW stated
    PROVE  \/ WithoutStated(s, stated) = s /\ \A i \in 1 .. Len(s) : ~ Near(s[i], stated)
           \/ \E m \in 1 .. Len(s) : Near(s[m], stated) /\ WithoutStated(s, stated) = RemoveAt(s, m)
<1> DEFINE same == {i \in DOMAIN s : Near(s[i], stated)}
<1>1. DOMAIN s = 1 .. Len(s) /\ Len(s) \in Nat
  OBVIOUS
<1>2. CASE same = {}
  BY <1>1, <1>2 DEF WithoutStated
<1>3. CASE same # {}
  <2>1. Min(same) \in same
    <3>1. same \subseteq Nat
      BY <1>1
    <3>2. \E n \in same : \A k \in same : n <= k
      <4> HIDE DEF same
      <4> QED BY <1>3, <3>1, LeastNumber
    <3> HIDE DEF same
    <3> QED BY <3>2 DEF Min
  <2>2. WithoutStated(s, stated) = RemoveAt(s, Min(same))
    BY <1>3 DEF WithoutStated
  <2> QED BY <1>1, <2>1, <2>2
<1> QED BY <1>2, <1>3

(* The first verdict and the second.                                       *)
LEMMA AddsUp ==
    ASSUME MoneyInv
    PROVE  AddsUpAsStored
<1> DEFINE s == Amounts(FixedLines)
           D == StatedTotal(Stored)
           parts == WithoutStated(s, D)
<1> SUFFICES ASSUME Rechecked, Verdict.reconciled
             PROVE  \/ \E sum \in Sums(s, D) : Near(sum, D)
                    \/ Near(Stored.base + Stored.delta, D)
  BY DEF AddsUpAsStored
<1>1. s \in Seq(Int) /\ DOMAIN s = 1 .. Len(s)
  <2>1. s \in Seq(Int)
    BY AmountsAre
  <2> HIDE DEF s
  <2> QED BY <2>1
<1>2. Reconcile(Stored, s).computed /\ Reconcile(Stored, s).reconciled
  BY DEF Rechecked, Verdict
<1>3. \/ parts = s
      \/ \E m \in 1 .. Len(s) : Near(s[m], D) /\ parts = RemoveAt(s, m)
  <2> HIDE DEF s, D
  <2> QED BY <1>1, PartsAre
<1>4. Total(parts) \in Sums(s, D)
  <2> HIDE DEF s, D
  <2>1. \A m \in 1 .. Len(s) : Near(s[m], D) => m \in {j \in DOMAIN s : Near(s[j], D)}
    BY <1>1
  <2> QED BY <1>3, <2>1 DEF Sums
<1>5. \/ Near(Total(parts), D)
      \/ Near(Stored.base + Stored.delta, D)
  BY <1>2 DEF Reconcile, Compared, Unknown
<1> HIDE DEF s, D, parts
<1> QED BY <1>4, <1>5

(* An amount read without its multiplier is the one its quote gives.       *)
LEMMA ScaleIsForgiven ==
    ASSUME MoneyInv
    PROVE  MultiplierForgiven
<1>1. Amounts(FixedLines) = ReadInFull
  <2>1. \A i \in 1 .. Len(lines) :
            FixedLines[i].amount = IF ScaleDropped(lines[i].amount, lines[i].quoted) THEN lines[i].quoted
                                   ELSE lines[i].amount
    BY AmountsAre DEF FixScale
  <2>2. DOMAIN lines = 1 .. Len(lines) /\ DOMAIN FixedLines = DOMAIN lines
    BY AmountsAre DEF FixedLines
  <2> QED BY <2>1, <2>2 DEF Amounts, ReadInFull
<1> QED BY <1>1 DEF MultiplierForgiven, Verdict, Rechecked

(* The figures, field by field.                                            *)
LEMMA FiguresAre ==
    ASSUME MoneyInv
    PROVE  /\ figures.base \in Figure /\ figures.total \in Figure /\ figures.newTotal \in Figure
           /\ figures.delta \in Figure /\ (figures.source # NoQuote => figures.source \in Figure)
           /\ Stored.base = figures.base /\ Stored.newTotal = figures.newTotal
           /\ Stored.total = FixedTotal /\ Stored.delta = SignedDelta
<1>1. figures \in [base : Figure, total : Figure, newTotal : Figure, delta : Figure,
                   source : Figure \cup {NoQuote}, amends : BOOLEAN, wording : {"none", "reduction", "increase"}]
  BY FiguresAssumption DEF MoneyInv
<1> QED BY <1>1 DEF Stored

(* What the validator gave is what is kept.                                *)
LEMMA OwnAre ==
    ASSUME MoneyInv
    PROVE  /\ OwnFigures.base = Given("base") /\ Given("base") \in {figures.base, NoFigure}
           /\ OwnFigures.delta = Given("delta") /\ Given("delta") \in {figures.delta, NoFigure}
BY DEF OwnFigures, Given

(* The change keeps its size, and has the sign of the difference where     *)
(* that is as large.                                                       *)
LEMMA ChangeIsSigned ==
    ASSUME MoneyInv, figures.delta # NoFigure
    PROVE  /\ SignedDelta \in Int
           /\ figures.base # NoFigure /\ figures.newTotal # NoFigure /\ figures.base # figures.newTotal
              /\ Near(Size(figures.newTotal - figures.base), Size(figures.delta))
              => Near(figures.base + SignedDelta, figures.newTotal)
<1>1. /\ figures.base \in Figure /\ figures.newTotal \in Figure /\ figures.delta \in Int
      /\ NoFigure \notin Int
  BY FiguresAre, FiguresAssumption DEF Figure
<1>2. SignedDelta \in {figures.delta, -figures.delta}
  BY DEF SignedDelta
<1>3. SignedDelta \in Int
  BY <1>1, <1>2
<1>4. ASSUME figures.base # NoFigure, figures.newTotal # NoFigure, figures.base # figures.newTotal,
             Near(Size(figures.newTotal - figures.base), Size(figures.delta))
      PROVE  Near(figures.base + SignedDelta, figures.newTotal)
  <2>1. PICK b \in Int, t \in Int, d \in Int : b = figures.base /\ t = figures.newTotal /\ d = figures.delta
    BY <1>1, <1>4 DEF Figure
  <2>2. Direction = SignOf(t - b)
    BY <1>4, <2>1 DEF Direction
  <2>3. SignedDelta = IF d # 0 /\ Direction # 0 /\ SignOf(d) # Direction THEN -d ELSE d
    BY <2>1 DEF SignedDelta
  <2>4. b # t /\ Near(Size(t - b), Size(d))
    BY <1>4, <2>1
  <2>5. Near(b + SignedDelta, t)
    BY <2>2, <2>3, <2>4 DEF Near, Size, SignOf
  <2> QED BY <2>1, <2>5
<1> QED BY <1>3, <1>4

(* At most one line leaves less than two parts.                            *)
LEMMA FewParts ==
    ASSUME NEW s \in Seq(Int), NEW stated
    PROVE  /\ WithoutStated(s, stated) \in Seq(Int)
           /\ Len(WithoutStated(s, stated)) \in {Len(s), Len(s) - 1}
           /\ (\A i \in 1 .. Len(s) : ~ Near(s[i], stated)) <=> WithoutStated(s, stated) = s
           /\ Len(WithoutStated(s, stated)) = Len(s) <=> WithoutStated(s, stated) = s
<1>1. CASE WithoutStated(s, stated) = s /\ \A i \in 1 .. Len(s) : ~ Near(s[i], stated)
  BY <1>1
<1>2. ASSUME NEW m \in 1 .. Len(s), Near(s[m], stated), WithoutStated(s, stated) = RemoveAt(s, m)
      PROVE  /\ WithoutStated(s, stated) \in Seq(Int)
             /\ Len(WithoutStated(s, stated)) \in {Len(s), Len(s) - 1}
             /\ (\A i \in 1 .. Len(s) : ~ Near(s[i], stated)) <=> WithoutStated(s, stated) = s
             /\ Len(WithoutStated(s, stated)) = Len(s) <=> WithoutStated(s, stated) = s
  <2>1. RemoveAt(s, m) \in Seq(Int) /\ Len(RemoveAt(s, m)) = Len(s) - 1
    BY TakenOut
  <2>2. Len(s) \in Nat
    OBVIOUS
  <2> QED BY <1>2, <2>1, <2>2
<1> QED BY <1>1, <1>2, PartsAre

(* A change that is the difference adds up, whatever its sign              *)
(* (_check_money).                                                         *)
LEMMA ReductionsAddUp ==
    ASSUME MoneyInv
    PROVE  ReductionAddsUp
<1> SUFFICES ASSUME figures.base # NoFigure, figures.newTotal # NoFigure, figures.delta # NoFigure,
                    figures.base # figures.newTotal,
                    Near(Size(figures.newTotal - figures.base), Size(figures.delta)),
                    Len(lines) < 2
             PROVE  Verdict.reconciled
  BY DEF ReductionAddsUp
<1> DEFINE s == Amounts(FixedLines)
           D == StatedTotal(Stored)
           parts == WithoutStated(s, D)
<1>1. D = figures.newTotal /\ D # NoFigure
  BY FiguresAre DEF StatedTotal
<1>2. s \in Seq(Int) /\ Len(s) = Len(lines) /\ Len(lines) \in Nat
  BY AmountsAre
<1>3. ~ (Len(parts) >= 2)
  <2> HIDE DEF s, D
  <2>1. Len(parts) \in {Len(s), Len(s) - 1}
    BY <1>2, FewParts
  <2> QED BY <1>2, <2>1
<1>4. Stored.base = figures.base /\ Stored.delta = SignedDelta
  BY FiguresAre
<1>5. SignedDelta \in Int /\ Near(figures.base + SignedDelta, figures.newTotal)
  BY ChangeIsSigned
<1>6. Stored.delta # NoFigure
  BY <1>4, <1>5, FiguresAssumption
<1>7. Reconcile(Stored, s) = Compared(Stored.base + Stored.delta, D)
  <2> HIDE DEF s
  <2> QED BY <1>1, <1>3, <1>4, <1>6 DEF Reconcile
<1>8. Compared(Stored.base + Stored.delta, D).computed /\ Compared(Stored.base + Stored.delta, D).reconciled
  BY <1>1, <1>4, <1>5 DEF Compared
<1> QED BY <1>7, <1>8 DEF Verdict

(* The first answer is left standing only where it was about another       *)
(* total, or the total was found among the parts: what made it computable  *)
(* is there for the second.                                                *)
LEMMA StaleOnly ==
    ASSUME MoneyInv
    PROVE  StaleOnlyOfTotals
<1> SUFFICES ASSUME FirstVerdict.computed, ~ Rechecked, StatedTotal(OwnFigures) = StatedTotal(Stored)
             PROVE  \E i \in DOMAIN lines : /\ FixedLines[i].amount # lines[i].amount
                                            /\ Near(FixedLines[i].amount, StatedTotal(Stored))
  BY DEF StaleOnlyOfTotals
<1>0. PICK first : /\ first = OwnFigures
                   /\ first.base \in {figures.base, NoFigure} /\ first.delta \in {figures.delta, NoFigure}
  BY OwnAre
<1> DEFINE a == Amounts(lines)
           s == Amounts(FixedLines)
           D == StatedTotal(Stored)
<1>1. StatedTotal(first) = D
  BY <1>0
<1>2. Reconcile(first, a).computed /\ ~ Reconcile(Stored, s).computed
  BY <1>0 DEF FirstVerdict, Rechecked
<1>3. /\ a \in Seq(Int) /\ Len(a) = Len(lines) /\ Len(lines) \in Nat /\ DOMAIN lines = 1 .. Len(lines)
      /\ \A i \in 1 .. Len(lines) : a[i] = lines[i].amount
      /\ s \in Seq(Int) /\ Len(s) = Len(lines)
      /\ \A i \in 1 .. Len(lines) : s[i] = FixedLines[i].amount
  BY AmountsAre
<1>4. Stored.base = figures.base /\ Stored.delta = SignedDelta
  BY FiguresAre
<1> HIDE DEF a, s, D
<1>5. /\ D # NoFigure
      /\ Len(WithoutStated(a, D)) >= 2 \/ (figures.base # NoFigure /\ first.delta # NoFigure)
  BY <1>0, <1>1, <1>2 DEF Reconcile, Unknown
<1>6. /\ ~ (Len(WithoutStated(s, D)) >= 2)
      /\ ~ (figures.base # NoFigure /\ SignedDelta # NoFigure)
  BY <1>2, <1>4, <1>5 DEF Reconcile, Compared, D
<1>7. first.delta # NoFigure => SignedDelta # NoFigure
  BY <1>0, ChangeIsSigned, FiguresAssumption
<1>8. Len(WithoutStated(a, D)) >= 2
  BY <1>5, <1>6, <1>7
<1>9. /\ Len(WithoutStated(a, D)) \in {Len(a), Len(a) - 1}
      /\ (\A i \in 1 .. Len(a) : ~ Near(a[i], D)) <=> WithoutStated(a, D) = a
      /\ Len(WithoutStated(a, D)) = Len(a) <=> WithoutStated(a, D) = a
  BY <1>3, FewParts
<1>10. /\ Len(WithoutStated(s, D)) \in {Len(s), Len(s) - 1}
       /\ (\A i \in 1 .. Len(s) : ~ Near(s[i], D)) <=> WithoutStated(s, D) = s
       /\ Len(WithoutStated(s, D)) = Len(s) <=> WithoutStated(s, D) = s
  BY <1>3, FewParts
<1>11. Len(WithoutStated(a, D)) = Len(a) /\ Len(WithoutStated(s, D)) # Len(s)
  BY <1>3, <1>6, <1>8, <1>9, <1>10
<1>12. PICK i \in 1 .. Len(s) : Near(s[i], D)
  BY <1>10, <1>11
<1>13. ~ Near(a[i], D)
  BY <1>3, <1>9, <1>11
<1> QED BY <1>3, <1>12, <1>13 DEF D

(* The total that is stated is a number.                                   *)
LEMMA TotalIsFigure ==
    ASSUME MoneyInv
    PROVE  StatedTotal(Stored) \in Figure
<1> DEFINE K == Len(lines)
<1>0. /\ K \in Nat /\ DOMAIN lines = 1 .. K
      /\ \A i \in 1 .. K : lines[i].amount \in Int /\ lines[i].quoted \in Figure
  <2>1. DOMAIN lines = 1 .. K /\ K \in Nat
    BY AmountsAre
  <2>2. \A i \in 1 .. K : lines[i] \in LineItems
    BY DEF MoneyInv
  <2> QED BY <2>1, <2>2, FiguresAssumption
<1>1. CASE ScaleDropped(figures.total, SourceOfTotal) /\ figures.source = NoQuote
  <2> DEFINE stating == {i \in DOMAIN lines : Given("total") # NoFigure /\ lines[i].amount = Given("total")}
             largest == {i \in DOMAIN lines : \A j \in DOMAIN lines : lines[j].amount <= lines[i].amount}
             chosen == IF stating # {} THEN stating ELSE largest
  <2>1. lines # <<>>
    BY <1>1 DEF ScaleDropped, SourceOfTotal, SourceForTotal
  <2>2. K > 0
    BY <2>1, <1>0 DEF MoneyInv
  <2>3. largest # {}
    <3> DEFINE a == [i \in 1 .. K |-> lines[i].amount]
    <3>1. \A i \in 1 .. K : a[i] \in Int /\ a[i] = lines[i].amount
      BY <1>0
    <3> HIDE DEF a, K
    <3>2. PICK i \in 1 .. K : \A j \in 1 .. K : a[j] <= a[i]
      BY <1>0, <2>2, <3>1, GreatestOfList
    <3> QED BY <1>0, <3>1, <3>2
  <2>4. chosen # {} /\ chosen \subseteq 1 .. K
    BY <1>0, <2>3
  <2>5. SourceOfTotal = lines[Min(chosen)].quoted
    BY <1>1, <2>1 DEF SourceOfTotal, SourceForTotal
  <2>6. Min(chosen) \in chosen
    <3> HIDE DEF chosen, K
    <3>1. chosen \subseteq Nat
      BY <1>0, <2>4
    <3>2. \E n \in chosen : \A k \in chosen : n <= k
      BY <2>4, <3>1, LeastNumber
    <3> QED BY <3>2 DEF Min
  <2>7. SourceOfTotal \in Figure
    <3> HIDE DEF chosen, K
    <3> QED BY <1>0, <2>4, <2>5, <2>6
  <2> QED BY <1>1, <2>7, FiguresAre DEF StatedTotal, FixedTotal, FixScale
<1>3. CASE ScaleDropped(figures.total, SourceOfTotal) /\ figures.source # NoQuote
  <2>1. SourceOfTotal = figures.source /\ figures.source \in Figure
    BY <1>3, FiguresAre DEF SourceOfTotal
  <2> QED BY <1>3, <2>1, FiguresAre DEF StatedTotal, FixedTotal, FixScale
<1>2. CASE ~ ScaleDropped(figures.total, SourceOfTotal)
  BY <1>2, FiguresAre DEF StatedTotal, FixedTotal, FixScale
<1> QED BY <1>1, <1>2, <1>3

(* The total listed among the parts changes nothing (_reconcile).          *)
LEMMA CountedOnce ==
    ASSUME MoneyInv
    PROVE  TotalCountedOnce
<1> DEFINE s == Amounts(FixedLines)
           D == StatedTotal(Stored)
           t == Append(s, D)
           L == Len(s)
<1> SUFFICES ASSUME D # NoFigure, \A i \in DOMAIN s : ~ Near(s[i], D)
             PROVE  Reconcile(Stored, t) = Reconcile(Stored, s)
  BY DEF TotalCountedOnce
<1>1. s \in Seq(Int)
  BY AmountsAre
<1>2. D \in Int
  BY TotalIsFigure DEF Figure
<1>3. \A i \in DOMAIN s : ~ Near(s[i], D)
  OBVIOUS
<1> HIDE DEF s, D
<1>4. /\ t \in Seq(Int) /\ Len(t) = L + 1 /\ t[L + 1] = D /\ (\A i \in 1 .. L : t[i] = s[i])
      /\ L \in Nat /\ DOMAIN s = 1 .. L
  BY <1>1, <1>2
<1> HIDE DEF t, L
<1>5. WithoutStated(s, D) = s
  <2>1. \/ WithoutStated(s, D) = s /\ \A i \in 1 .. Len(s) : ~ Near(s[i], D)
        \/ \E m \in 1 .. Len(s) : Near(s[m], D) /\ WithoutStated(s, D) = RemoveAt(s, m)
    BY <1>1, PartsAre
  <2> QED BY <1>3, <1>4, <2>1 DEF L
<1>6. WithoutStated(t, D) = s
  <2>1. Near(D, D)
    BY <1>2 DEF Near, Size
  <2>2. \/ WithoutStated(t, D) = t /\ \A i \in 1 .. Len(t) : ~ Near(t[i], D)
        \/ \E m \in 1 .. Len(t) : Near(t[m], D) /\ WithoutStated(t, D) = RemoveAt(t, m)
    BY <1>4, PartsAre
  <2>3. L + 1 \in 1 .. Len(t)
    BY <1>4
  <2>4. PICK m \in 1 .. Len(t) : Near(t[m], D) /\ WithoutStated(t, D) = RemoveAt(t, m)
    BY <1>4, <2>1, <2>2, <2>3
  <2>5. m = L + 1
    <3>1. m \in 1 .. L => ~ Near(t[m], D)
      BY <1>3, <1>4
    <3> QED BY <1>4, <2>4, <3>1
  <2>6. /\ RemoveAt(t, m) \in Seq(Int) /\ Len(RemoveAt(t, m)) = Len(t) - 1
        /\ \A n \in 1 .. (Len(t) - 1) : RemoveAt(t, m)[n] = IF n < m THEN t[n] ELSE t[n + 1]
    BY <1>4, TakenOut
  <2> DEFINE r == RemoveAt(t, m)
  <2>7. r \in Seq(Int) /\ Len(r) = L /\ \A n \in 1 .. L : r[n] = s[n]
    <3>1. Len(t) - 1 = L /\ \A n \in 1 .. L : n < m
      BY <1>4, <2>5
    <3> QED BY <1>4, <2>6, <3>1
  <2> HIDE DEF r
  <2>8. r = s
    BY <1>1, <1>4, <2>7 DEF L
  <2> QED BY <2>4, <2>8 DEF r
<1>7. Reconcile(Stored, t) = Reconcile(Stored, s)
  BY <1>5, <1>6 DEF Reconcile, D
<1> QED BY <1>7

(* The order of the line items is nothing (_reconcile).                    *)
LEMMA OrderOfFixed ==
    ASSUME MoneyInv
    PROVE  OrderOfLines
<1> DEFINE s == Amounts(FixedLines)
           D == StatedTotal(Stored)
           L == Len(s)
           t == Reverse(s)
<1> SUFFICES ASSUME Rechecked,
                    \A i, j \in {i \in DOMAIN s : Near(s[i], D)} : s[i] = s[j]
             PROVE  Reconcile(Stored, t).reconciled = Verdict.reconciled
  BY DEF OrderOfLines
<1>1. s \in Seq(Int)
  BY AmountsAre
<1>2. Verdict = Reconcile(Stored, s)
  BY DEF Verdict, Rechecked
<1>3. \A i, j \in DOMAIN s : Near(s[i], D) /\ Near(s[j], D) => s[i] = s[j]
  OBVIOUS
<1> HIDE DEF s, D
<1>4. /\ t \in Seq(Int) /\ Len(t) = L /\ \A n \in 1 .. L : t[n] = s[(L - n) + 1]
  BY <1>1, Reversed
<1>5. Total(t) = Total(s)
  BY <1>1, TotalReversed
<1>6. L \in Nat /\ DOMAIN s = 1 .. L /\ \A n \in 1 .. L : s[n] \in Int
  BY <1>1
<1> HIDE DEF t
<1>7. \/ WithoutStated(s, D) = s /\ \A i \in 1 .. Len(s) : ~ Near(s[i], D)
      \/ \E m \in 1 .. Len(s) : Near(s[m], D) /\ WithoutStated(s, D) = RemoveAt(s, m)
  BY <1>1, PartsAre
<1>8. \/ WithoutStated(t, D) = t /\ \A i \in 1 .. Len(t) : ~ Near(t[i], D)
      \/ \E m \in 1 .. Len(t) : Near(t[m], D) /\ WithoutStated(t, D) = RemoveAt(t, m)
  BY <1>4, PartsAre
<1>9. Len(WithoutStated(t, D)) = Len(WithoutStated(s, D)) /\ Total(WithoutStated(t, D)) = Total(WithoutStated(s, D))
  <2>1. CASE \A i \in 1 .. L : ~ Near(s[i], D)
    <3>1. \A n \in 1 .. L : ~ Near(t[n], D)
      <4> TAKE n \in 1 .. L
      <4>1. (L - n) + 1 \in 1 .. L
        BY <1>6
      <4> QED BY <1>4, <2>1, <4>1
    <3>2. WithoutStated(s, D) = s
      BY <1>7, <2>1
    <3>3. WithoutStated(t, D) = t
      BY <1>4, <1>8, <3>1
    <3> QED BY <1>4, <1>5, <3>2, <3>3
  <2>2. ASSUME NEW i \in 1 .. L, Near(s[i], D)
        PROVE  /\ Len(WithoutStated(t, D)) = Len(WithoutStated(s, D))
               /\ Total(WithoutStated(t, D)) = Total(WithoutStated(s, D))
    <3>1. PICK m \in 1 .. L : Near(s[m], D) /\ WithoutStated(s, D) = RemoveAt(s, m)
      BY <1>7, <2>2
    <3>2. (L - i) + 1 \in 1 .. L /\ (L - ((L - i) + 1)) + 1 = i
      BY <1>6
    <3>3. t[(L - i) + 1] = s[i]
      <4>1. t[(L - i) + 1] = s[(L - ((L - i) + 1)) + 1]
        BY <1>4, <3>2
      <4> QED BY <3>2, <4>1
    <3>4. PICK n \in 1 .. L : Near(t[n], D) /\ WithoutStated(t, D) = RemoveAt(t, n)
      BY <1>4, <1>8, <2>2, <3>2, <3>3
    <3>5. t[n] = s[m]
      <4>1. (L - n) + 1 \in 1 .. L /\ t[n] = s[(L - n) + 1]
        BY <1>4, <1>6
      <4> QED BY <1>3, <1>6, <3>1, <3>4, <4>1
    <3>6. Len(RemoveAt(s, m)) = L - 1 /\ Total(RemoveAt(s, m)) = Total(s) - s[m]
      BY <1>1, TakenOut, TotalWithout
    <3>7. n \in 1 .. Len(t)
      BY <1>4
    <3>8. Len(RemoveAt(t, n)) = Len(t) - 1
      BY <1>4, <3>7, TakenOut
    <3>9. Total(RemoveAt(t, n)) = Total(t) - t[n]
      BY <1>4, <3>7, TotalWithout
    <3> QED BY <1>4, <1>5, <3>1, <3>4, <3>5, <3>6, <3>8, <3>9
  <2> QED BY <2>1, <2>2
<1>10. Reconcile(Stored, t) = Reconcile(Stored, s)
  BY <1>9 DEF Reconcile, D
<1> QED BY <1>2, <1>10

(* The stored figures are those the answer is about (classify._reconcile). *)
LEMMA MoneyGives ==
    ASSUME MoneyInv
    PROVE  FiguresHold
BY AddsUp, ReductionsAddUp, ScaleIsForgiven, StaleOnly, CountedOnce, OrderOfFixed DEF FiguresHold

(***************************************************************************)
(* The parts together                                                      *)
(***************************************************************************)

(* Each part, when a behaviour is of it, is as its invariant says.         *)
PartsInv ==
    /\ focus = "chat" => ChatInv
    /\ focus = "stream" => StreamInv
    /\ focus = "advice" => AdviceInv
    /\ focus = "classify" => ClassifyInv
    /\ focus = "facts" => FactInv
    /\ focus = "money" => MoneyInv
    /\ focus = "grades" => GradesInv
    /\ focus = "documents" => DocumentInv

(* Each part starts as it does by itself.                                  *)
LEMMA PartsStart == PartsInit => PartsInv
BY ChatStarts, StreamStarts, AdviceStarts, ClassifyStarts, FactStarts, MoneyStarts, GradesStart, DocumentStart
DEF PartsInit, PartsInv

(* A step of a part leaves the others alone.                               *)
LEMMA PartsStep == PartsInv /\ [PartsNext]_partsVars => PartsInv'
<1> SUFFICES ASSUME PartsInv, [PartsNext]_partsVars PROVE PartsInv'
  OBVIOUS
<1>1. UNCHANGED focus
  BY DEF PartsNext, On, partsVars
<1>2. CASE focus = "chat"
  <2>1. [ChatNext]_chatVars
    BY <1>2 DEF PartsNext, On, partsVars, talkVars
  <2> QED BY <1>1, <1>2, <2>1, ChatStep DEF PartsInv
<1>3. CASE focus = "stream"
  <2>1. [StreamNext]_streamVars
    BY <1>3 DEF PartsNext, On, partsVars, talkVars
  <2> QED BY <1>1, <1>3, <2>1, StreamStep DEF PartsInv
<1>4. CASE focus = "advice"
  <2>1. [AdviceNext]_adviceVars
    BY <1>4 DEF PartsNext, On, partsVars, ruleVars
  <2> QED BY <1>1, <1>4, <2>1, AdviceStep DEF PartsInv
<1>5. CASE focus = "classify"
  <2>1. [ClassifyNext]_classifyVars
    BY <1>5 DEF PartsNext, On, partsVars, gradeVars
  <2> QED BY <1>1, <1>5, <2>1, ClassifyStep DEF PartsInv
<1>6. CASE focus = "facts"
  <2>1. FactsNext \/ UNCHANGED factVars
    BY <1>6 DEF PartsNext, On, partsVars, gradeVars
  <2>2. CASE FactsNext
    BY <1>1, <1>6, <2>2, FactStep DEF PartsInv
  <2>3. CASE UNCHANGED factVars
    BY <1>1, <1>6, <2>3 DEF PartsInv, FactInv, factVars
  <2> QED BY <2>1, <2>2, <2>3
<1>7. CASE focus = "money"
  <2>1. MoneyNext \/ UNCHANGED moneyVars
    BY <1>7 DEF PartsNext, On, partsVars, gradeVars
  <2>2. CASE MoneyNext
    BY <1>1, <1>7, <2>2, MoneyStep DEF PartsInv
  <2>3. CASE UNCHANGED moneyVars
    BY <1>1, <1>7, <2>3 DEF PartsInv, MoneyInv, moneyVars
  <2> QED BY <2>1, <2>2, <2>3
<1>8. CASE focus = "grades"
  <2>1. [ClausesNext]_clauseVars
    BY <1>8 DEF PartsNext, On, partsVars, ruleVars
  <2> QED BY <1>1, <1>8, <2>1, GradesStep DEF PartsInv
<1>9. CASE focus = "documents"
  <2>1. [DocumentNext]_documentVars
    BY <1>9 DEF PartsNext, On, partsVars, ruleVars
  <2> QED BY <1>1, <1>9, <2>1, DocumentStep DEF PartsInv
<1>10. CASE focus \notin {"chat", "stream", "advice", "classify", "facts", "money", "grades", "documents"}
  BY <1>1, <1>10 DEF PartsInv
<1> QED BY <1>2, <1>3, <1>4, <1>5, <1>6, <1>7, <1>8, <1>9, <1>10

(* The invariant of the parts is kept.                                     *)
THEOREM PartsKeep == Parts => []PartsInv
BY PartsStart, PartsStep, PTL DEF Parts

(* An answer is from what the caller may read, what it cites and what it   *)
(* leaves unmarked is there, and a streamed answer is shown whole, once    *)
(* and without a placeholder (rag/handler.py).                             *)
THEOREM ConversationsHold == Parts => []ConversationHolds
<1>1. PartsInv => ConversationHolds
  BY ChatGives, StreamGives DEF PartsInv, ConversationHolds
<1> QED BY <1>1, PartsKeep, PTL

(* The advice on a review is accepted by the step it names, moves the      *)
(* contract on, and names as waited for who can act (workflow.py).         *)
THEOREM AdviceStandsAlways == Parts => []AdviceStands
<1>1. PartsInv => AdviceStands
  BY AdviceGives DEF PartsInv, AdviceStands
<1> QED BY <1>1, PartsKeep, PTL

(* What the classify stage stores is whole or flagged, its facts do not    *)
(* depend on how the document was cut, and its figures add up where it     *)
(* says so (classify.py).                                                  *)
THEOREM StoredAnalysisStands == Parts => []StoredAnalysisHolds
<1>1. PartsInv => StoredAnalysisHolds
  BY ClassifyGives, FactGives, MoneyGives DEF PartsInv, StoredAnalysisHolds
<1> QED BY <1>1, PartsKeep, PTL

(* An alarm a check knows is heard whatever else the clause says, and a    *)
(* workspace's phrases only add to it; the review of a document passes no  *)
(* required clause over, borrows none that is graded, is not softened by   *)
(* splitting a clause, and tells its blockers apart (matrix.py,            *)
(* playbook.py).                                                           *)
THEOREM RulesStand == Parts => []RulesHold
<1>1. PartsInv => RulesHold
  BY GradesGive, DocumentGives DEF PartsInv, RulesHold
<1> QED BY <1>1, PartsKeep, PTL
=============================================================================
