----------------------------- MODULE ExecutorProofs -----------------------------
(***************************************************************************)
(* Proofs about Executor, for every set of attempts and of answers, every  *)
(* deny list an operator may add and every size of the socket's channel.   *)
(*                                                                         *)
(* What a property says of the exchanges follows from what holds before    *)
(* them: of the prepared body and of the headers (BodiesFit, HeadersFit),  *)
(* of the record kept for the log (RecordsFit), of the answer being read   *)
(* (AnswersFit), and of the event the socket's task holds (SocketFits).    *)
(***************************************************************************)
EXTENDS Executor, FunctionTheorems, SequenceTheorems, NaturalsInduction,
        WellFoundedInduction, TLAPS

(***************************************************************************)
(* The inductive invariant                                                 *)
(***************************************************************************)
Owners == {Absent, "client", "codec", "provider", "profile", "merged", "gateway"}
HeaderMaps == [RequestNames -> Owners]
Exchanges == [by : {"socket", "http"}, body : Bodies, headers : HeaderMaps]
Stages == {"build", "auth", "connect", "handshake", "create", "collect", "send", "wait",
           "refused", "read", "deliver", "done"}

ExecutorTypes ==
  /\ req \in Requests /\ pc \in Stages
  /\ body \in Bodies /\ verbatim \in BOOLEAN /\ hdrs \in HeaderMaps
  /\ record \in Bodies \cup {None}
  /\ wire \in Seq(Exchanges) /\ answered \in Seq(Nat)
  /\ captures \in Seq([status : Nat, sent : Bodies \cup {None}])
  /\ answer.status \in Nat /\ answer.names \subseteq ResponseNames
  /\ pc # "done" => result = NoResult

\* A body of a Codex subscription's first exchange.
CodexFits(b, http) == CodexReads(b) /\ CallsAsAllowed(b) /\ (http => FitForHttp(b))

\* A body that any upstream of the attempt's target accepts on its first exchange.
Fits(b) ==
  /\ Codex /\ req.exec \in ChatLike => CodexFits(b, ~Websocket)
  /\ req.target.deepseek /\ ~Codex /\ b.suite = "responses" /\ req.exec \in ChatLike
       => DeepSeekUnderstands(b)
  /\ req.exec # "edits" => b.model # "client"

\* The attempt begins with an upgrade.
Upgrades == Websocket /\ req.exec \in ChatLike

\* What goes out after a refused upgrade.
Resent ==
  /\ Upgrades /\ CodexReads(body) /\ FitForHttp(body) /\ body.model # "client"
  /\ verbatim => CodexReads(req.body) /\ req.body.model # "client"

BodiesFit ==
  /\ pc \in {"build", "auth", "connect"} => wire = <<>>
  /\ pc \in {"connect", "handshake"} => Upgrades
  /\ pc = "send" /\ wire = <<>> => ~Upgrades
  /\ pc \in {"auth", "connect", "send"} /\ wire = <<>> =>
       Fits(body) /\ (verbatim => body = req.body)
  /\ pc = "handshake" => wire # <<>> /\ Fits(body) /\ (verbatim => body = req.body)
  /\ pc = "send" /\ wire # <<>> => Resent
  /\ UpstreamsGetWhatTheyAccept

\* A header of the client's is there only if the operator lets it pass.
Undenied(h, deny) == \A n \in RequestNames : h[n] = "client" => ~Denied(deny, n)

HeadersFit ==
  /\ pc \in {"auth", "connect", "handshake", "send"} =>
       hdrs[Handshake] = Absent /\ Undenied(hdrs, req.denyRequest)
  /\ pc \in {"connect", "handshake", "send"} =>
       /\ hdrs[Authorization] = "provider"
       /\ req.target.profile # None => hdrs[Title] = Absent
  /\ HeadersHaveTheirOwner

\* The statuses of the captures are the first n of the answered ones.
Told(n) ==
  /\ Len(captures) = n /\ n <= Len(answered)
  /\ \A k \in 1..n : captures[k].status = answered[k]

Recorded(b, later) ==
  \/ record = b
  \/ req.exec = "edits"
  \/ later /\ verbatim /\ record = PrepareCodex(b, FALSE).body

RecordsFit ==
  /\ pc \in {"build", "auth", "connect", "send"} =>
       Told(Len(answered)) /\ Len(wire) = Len(answered)
  /\ pc \in {"handshake", "wait"} =>
       Told(Len(answered)) /\ Len(wire) = Len(answered) + 1
  /\ pc \in {"create", "collect", "refused", "read", "deliver"} =>
       /\ Len(answered) > 0 /\ Told(Len(answered) - 1) /\ Len(wire) = Len(answered)
       /\ answered[Len(answered)] = IF pc \in {"create", "collect"} THEN 101 ELSE answer.status
  /\ pc \in {"auth", "send"} =>
       Recorded(IF verbatim THEN req.body ELSE body, wire # <<>>)
  /\ pc \in {"handshake", "wait", "create", "collect", "refused", "read", "deliver"} =>
       Recorded(wire[Len(wire)].body, Len(wire) > 1)
  /\ CapturesTellTheExchange

AnswersFit ==
  /\ pc \in Stages \ {"refused", "read", "deliver", "done"} => answer = NoAnswer
  /\ pc \in {"collect", "read", "deliver"} => ~req.stream
  /\ pc \in {"refused", "read"} =>
                    /\ answer \in Answers /\ answered # <<>>
                    /\ answered[Len(answered)] = answer.status
  /\ pc = "deliver" => answer.body \in {"json", "mixed", "completed"}
  /\ RefusalsAreHeard

\* Frames behind which the task reads no other.
Final == {"completed", "done", "failed", "error", "fault", "close"}

Events == EventFrames \cup FaultFrames

SocketFits ==
  /\ chan \in Seq(Events) /\ seen \in Seq(Events) /\ heard \in Seq(Frames)
  /\ receiver \in BOOLEAN
  /\ pump \in {"idle", "recv", "send", "last", "close", "gone"}
  /\ pc # "done" => pump = "idle"
  /\ pc \notin {"collect", "deliver", "done"} => heard = <<>>
  /\ pump = "idle" => chan = <<>> /\ seen = <<>> /\ held = "none" /\ receiver
  /\ pump \notin {"send", "last"} => held = "none"
  /\ pump = "recv" => \A k \in DOMAIN heard : heard[k] \notin Final
  /\ pump = "send" => /\ heard # <<>> /\ heard[Len(heard)] \in EventFrames
                      /\ held = Normalized(heard[Len(heard)])
  /\ pump = "last" => held = "fault"
  /\ SocketEventsArrive

ExecutorInv ==
  /\ ExecutorTypes /\ BodiesFit /\ HeadersFit /\ RecordsFit /\ AnswersFit /\ SocketFits

-----------------------------------------------------------------------------
(* FlattenSeq, whose recursive function is the one its definition chooses.   *)

LEMMA LeastExists ==
  ASSUME NEW T, T \subseteq Nat, T # {}
  PROVE  \E x \in T : \A y \in T : x <= y
  <1> DEFINE R == OpToRel(<, Nat)
  <1>1. IsWellFoundedOn(R, Nat)
    BY NatLessThanWellFounded
  <1>2. ASSUME NEW x \in Nat, NEW y \in Nat, x < y
        PROVE  <<x, y>> \in R
    BY <1>2 DEF OpToRel
  <1> HIDE DEF R
  <1>3. PICK x \in T : \A y \in T : ~(<<y, x>> \in R)
    BY <1>1, WFMin
  <1>4. ASSUME NEW y \in T
        PROVE  ~(y < x)
    BY <1>2, <1>3
  <1>5. \A y \in T : x <= y
    BY <1>4
  <1> QED
    BY <1>5

\* f holds the concatenations of the first sequences of ss.
Joins(f, ss, n) ==
  \A i \in 1..n : f[i] = IF i = 1 THEN ss[i] ELSE f[i - 1] \o ss[i]

Agree(a, b, n) == \A i \in 1..n : a[i] = b[i]

LEMMA JoinsExist ==
  ASSUME NEW S, NEW ss \in Seq(Seq(S)), NEW n \in 0..Len(ss)
  PROVE  \E f \in [1..n -> Seq(S)] : Joins(f, ss, n)
  <1> DEFINE J(m) == \E f \in [1..m -> Seq(S)] : Joins(f, ss, m)
             T == {m \in 0..Len(ss) : ~J(m)}
  <1>1. SUFFICES ASSUME T # {}
                 PROVE  FALSE
    OBVIOUS
  <1>2. T \subseteq Nat
    OBVIOUS
  <1> HIDE DEF T
  <1>3. PICK m \in T : \A y \in T : m <= y
    BY <1>1, <1>2, LeastExists
  <1>4. m \in 0..Len(ss) /\ ~J(m)
    BY <1>3 DEF T
  <1>5. CASE m = 0
    <2>1. [i \in 1..0 |-> <<>>] \in [1..0 -> Seq(S)]
      OBVIOUS
    <2>2. Joins([i \in 1..0 |-> <<>>], ss, 0)
      BY DEF Joins
    <2> QED
      BY <1>4, <1>5, <2>1, <2>2
  <1>6. CASE m # 0
    <2>1. m - 1 \in 0..Len(ss) /\ m - 1 \notin T
      BY <1>3, <1>4, <1>6
    <2>2. J(m - 1)
      BY <2>1 DEF T
    <2>3. PICK f \in [1..(m - 1) -> Seq(S)] : Joins(f, ss, m - 1)
      BY <2>2
    <2> DEFINE g == [i \in 1..m |-> IF i < m THEN f[i]
                                    ELSE IF m = 1 THEN ss[m] ELSE f[m - 1] \o ss[m]]
    <2>4. ss[m] \in Seq(S)
      BY <1>4, <1>6
    <2>5. m # 1 => f[m - 1] \o ss[m] \in Seq(S)
      BY <1>4, <1>6, <2>3, <2>4
    <2>6. g \in [1..m -> Seq(S)]
      <3>1. ASSUME NEW i \in 1..m PROVE g[i] \in Seq(S)
        BY <1>4, <1>6, <2>3, <2>4, <2>5
      <3> QED BY <3>1
    <2>7. Joins(g, ss, m)
      <3>1. ASSUME NEW i \in 1..m
            PROVE  g[i] = IF i = 1 THEN ss[i] ELSE g[i - 1] \o ss[i]
        <4>1. CASE i < m
          <5>1. i \in 1..(m - 1) /\ (i # 1 => i - 1 \in 1..m /\ i - 1 < m)
            BY <1>4, <4>1
          <5>2. g[i] = f[i] /\ (i # 1 => g[i - 1] = f[i - 1])
            BY <4>1, <5>1
          <5>3. f[i] = IF i = 1 THEN ss[i] ELSE f[i - 1] \o ss[i]
            BY <2>3, <5>1 DEF Joins
          <5> HIDE DEF g
          <5> QED BY <5>2, <5>3
        <4>2. CASE i = m
          BY <1>4, <1>6, <4>2
        <4> QED BY <1>4, <4>1, <4>2
      <3> HIDE DEF g
      <3> QED BY <3>1 DEF Joins
    <2> HIDE DEF g
    <2> QED BY <1>4, <2>6, <2>7
  <1> QED
    BY <1>5, <1>6

LEMMA JoinsAgree ==
  ASSUME NEW f, NEW g, NEW ss, NEW tt, NEW n \in Nat, NEW m \in Nat, n <= m,
         Joins(f, ss, n), Joins(g, tt, m), Agree(ss, tt, n)
  PROVE  Agree(f, g, n)
  <1> DEFINE T == {j \in 1..n : f[j] # g[j]}
  <1>1. SUFFICES ASSUME T # {}
                 PROVE  FALSE
    BY DEF Agree
  <1>2. T \subseteq Nat
    OBVIOUS
  <1> HIDE DEF T
  <1>3. PICK j \in T : \A y \in T : j <= y
    BY <1>1, <1>2, LeastExists
  <1>4. j \in 1..n /\ f[j] # g[j]
    BY <1>3 DEF T
  <1>5. j # 1 => f[j - 1] = g[j - 1]
    BY <1>3, <1>4 DEF T
  <1>6. /\ f[j] = IF j = 1 THEN ss[j] ELSE f[j - 1] \o ss[j]
        /\ g[j] = IF j = 1 THEN tt[j] ELSE g[j - 1] \o tt[j]
    BY <1>4 DEF Joins
  <1>7. ss[j] = tt[j]
    BY <1>4 DEF Agree
  <1> QED
    BY <1>4, <1>5, <1>6, <1>7

LEMMA FlattenIsJoin ==
  ASSUME NEW S, NEW ss \in Seq(Seq(S)), ss # <<>>
  PROVE  \E f \in [1..Len(ss) -> Seq(S)] :
           Joins(f, ss, Len(ss)) /\ FlattenSeq(ss) = f[Len(ss)]
  <1> DEFINE E(f) == [i \in 1..Len(ss) |->
                        IF i = 1 THEN ss[i] ELSE f[i - 1] \o ss[i]]
             c == CHOOSE f : f = E(f)
  <1>1. Len(ss) \in Nat \ {0}
    OBVIOUS
  <1>2. PICK f \in [1..Len(ss) -> Seq(S)] : Joins(f, ss, Len(ss))
    BY SMTT(30), <1>1, JoinsExist
  <1>3. f = E(f)
    BY <1>2 DEF Joins
  <1>4. c = E(c)
    <2> HIDE DEF E
    <2> QED BY <1>3
  <1>5. FlattenSeq(ss) = c[Len(ss)]
    BY <1>1 DEF FlattenSeq
  <1>6. Joins(c, ss, Len(ss))
    <2> HIDE DEF c
    <2> QED BY <1>4 DEF Joins
  <1> HIDE DEF c, E
  <1>7. c[Len(ss)] = f[Len(ss)]
    <2>1. Agree(ss, ss, Len(ss))
      BY DEF Agree
    <2>2. Agree(c, f, Len(ss))
      BY <1>1, <1>2, <1>6, <2>1, JoinsAgree
    <2> QED BY <1>1, <2>2 DEF Agree
  <1> QED
    BY <1>2, <1>5, <1>7

\* What every piece is made of, the whole is made of.
LEMMA FlattenType ==
  ASSUME NEW S, NEW ss \in Seq(Seq(S))
  PROVE  FlattenSeq(ss) \in Seq(S)
  <1>1. CASE ss = <<>>
    BY <1>1 DEF FlattenSeq
  <1>2. CASE ss # <<>>
    <2>1. PICK f \in [1..Len(ss) -> Seq(S)] : FlattenSeq(ss) = f[Len(ss)]
      BY <1>2, FlattenIsJoin
    <2>2. Len(ss) \in 1..Len(ss)
      BY <1>2
    <2> QED BY <2>1, <2>2
  <1> QED
    BY <1>1, <1>2

LEMMA FlattenAppend ==
  ASSUME NEW S, NEW ss \in Seq(Seq(S)), NEW s \in Seq(S)
  PROVE  FlattenSeq(Append(ss, s)) = FlattenSeq(ss) \o s
  <1> DEFINE tt == Append(ss, s)
  <1>1. /\ tt \in Seq(Seq(S)) /\ tt # <<>> /\ Len(tt) = Len(ss) + 1 /\ Len(ss) \in Nat
        /\ tt[Len(tt)] = s /\ \A i \in 1..Len(ss) : ss[i] = tt[i]
    BY AppendProperties, LenProperties
  <1> HIDE DEF tt
  <1>2. PICK g \in [1..Len(tt) -> Seq(S)] :
          Joins(g, tt, Len(tt)) /\ FlattenSeq(tt) = g[Len(tt)]
    BY <1>1, FlattenIsJoin
  <1>3. CASE ss = <<>>
    <2>1. FlattenSeq(ss) = <<>>
      BY <1>3 DEF FlattenSeq
    <2>2. g[Len(tt)] = s
      BY <1>1, <1>2, <1>3 DEF Joins
    <2>3. <<>> \o s = s
      OBVIOUS
    <2> QED
      BY <1>2, <2>1, <2>2, <2>3 DEF tt
  <1>4. CASE ss # <<>>
    <2>1. PICK f \in [1..Len(ss) -> Seq(S)] :
            Joins(f, ss, Len(ss)) /\ FlattenSeq(ss) = f[Len(ss)]
      BY <1>4, FlattenIsJoin
    <2>2. Len(ss) \in 1..Len(ss) /\ Len(tt) \in Nat /\ Len(ss) <= Len(tt)
      BY <1>1, <1>4
    <2>3. f[Len(ss)] = g[Len(ss)]
      <3>1. Joins(f, ss, Len(ss)) /\ Joins(g, tt, Len(tt))
        BY <1>2, <2>1
      <3>2. Len(ss) \in Nat /\ Agree(ss, tt, Len(ss))
        BY <1>1 DEF Agree
      <3>3. Agree(f, g, Len(ss))
        BY <2>2, <3>1, <3>2, JoinsAgree
      <3> QED BY <2>2, <3>3 DEF Agree
    <2>4. g[Len(tt)] = g[Len(ss)] \o s
      <3>1. Len(tt) \in 1..Len(tt) /\ Len(tt) # 1 /\ Len(tt) - 1 = Len(ss)
        BY <1>1, <2>2
      <3>2. g[Len(tt)] = g[Len(tt) - 1] \o tt[Len(tt)]
        BY <1>2, <3>1 DEF Joins
      <3> QED BY <1>1, <3>1, <3>2
    <2> QED
      BY <1>2, <2>1, <2>3, <2>4 DEF tt
  <1> QED
    BY <1>3, <1>4
-----------------------------------------------------------------------------
(* Bodies: what the preparations keep, and what each of them sees to.        *)

LEMMA PreparedFacts ==
  ASSUME NEW a, NEW b
  PROVE  Prepared(a, b).body = b /\ (~Prepared(a, b).changed => b = a)
  BY DEF Prepared

LEMMA MapType ==
  ASSUME NEW I, NEW S, NEW s \in Seq(I), NEW m, m = [k \in DOMAIN s |-> m[k]],
         \A k \in DOMAIN s : m[k] \in S
  PROVE  m \in Seq(S)
  <1>1. DOMAIN s = 1..Len(s) /\ Len(s) \in Nat
    BY LenProperties
  <1>2. m \in [1..Len(s) -> S]
    BY <1>1
  <1> QED
    BY <1>1, <1>2, SeqDef

\* An input is the one string, or has none.
Given(input) ==
  input = StringInput \/ \A k \in DOMAIN input : input[k].type # "string"

Unstrung == {i \in Items : i.type # "string"}

LEMMA StringInputFacts ==
  /\ StringInput \in Seq(Items) /\ Len(StringInput) = 1 /\ DOMAIN StringInput = 1..1
  /\ StringInput[1].type = "string" /\ Item("message", "user") \in Unstrung
  /\ Item("message", "user").id = None /\ Item("message", "user").role = "user"
  /\ Item("message", "user").breakpoint = FALSE /\ Item("message", "user").type = "message"
  <1>1. Item("string", None) \in Items /\ Item("string", None).type = "string"
    BY DEF Item, Items, Ids, Ciphers
  <1>2. Item("message", "user") \in Items
    BY DEF Item, Items, Ids, Ciphers
  <1> HIDE DEF Item
  <1>3. StringInput \in Seq(Items) /\ Len(StringInput) = 1 /\ StringInput[1].type = "string"
    BY <1>1 DEF StringInput
  <1>4. DOMAIN StringInput = 1..1
    BY <1>3, LenProperties
  <1> QED
    BY <1>2, <1>3, <1>4 DEF Item, Unstrung

LEMMA OverrideFacts ==
  ASSUME NEW b \in Bodies
  PROVE  /\ OverrideModel(b).body \in Bodies
         /\ OverrideModel(b).body = [b EXCEPT !.model = OverrideModel(b).body.model]
         /\ OverrideModel(b).body.model # "client"
         /\ ~OverrideModel(b).changed => OverrideModel(b).body = b
  <1> DEFINE m == IF b.model = None THEN None ELSE "real"
             n == [b EXCEPT !.model = m]
  <1>1. OverrideModel(b).body = n /\ (~OverrideModel(b).changed => n = b)
    BY PreparedFacts DEF OverrideModel
  <1>2. m \in Models \cup {None} /\ m # "client"
    BY NoneAssumption DEF Models
  <1> HIDE DEF m
  <1>3. n \in Bodies /\ n.model = m
    BY <1>2 DEF Bodies
  <1> HIDE DEF n
  <1> QED
    BY <1>1, <1>2, <1>3 DEF n

LEMMA CacheKeyFacts ==
  ASSUME NEW b \in Bodies, NEW caller
  PROVE  /\ InjectCacheKey(b, caller).body \in Bodies
         /\ InjectCacheKey(b, caller).body = [b EXCEPT !.key = InjectCacheKey(b, caller).body.key]
         /\ ~InjectCacheKey(b, caller).changed => InjectCacheKey(b, caller).body = b
  <1> DEFINE m == IF b.suite \in {"chat", "responses"} /\ b.key = None /\ caller # "anonymous"
                  THEN "caller" ELSE b.key
             n == [b EXCEPT !.key = m]
  <1>1. /\ InjectCacheKey(b, caller).body = n
        /\ ~InjectCacheKey(b, caller).changed => n = b
    BY PreparedFacts DEF InjectCacheKey
  <1>2. m \in Keys \cup {None}
    BY DEF Keys, Bodies
  <1> HIDE DEF m
  <1>3. n \in Bodies /\ n.key = m
    BY <1>2 DEF Bodies
  <1> HIDE DEF n
  <1> QED
    BY <1>1, <1>2, <1>3 DEF n

LEMMA ReasoningFacts ==
  ASSUME NEW b \in Bodies, NEW target
  PROVE  /\ NormalizeReasoning(b, target).body \in Bodies
         /\ NormalizeReasoning(b, target).body
              = [b EXCEPT !.effort = NormalizeReasoning(b, target).body.effort]
         /\ ~NormalizeReasoning(b, target).changed => NormalizeReasoning(b, target).body = b
  <1> DEFINE m == IF b.suite \in {"chat", "responses"} /\ ~target.takesMax /\ b.effort = "max"
                  THEN "xhigh" ELSE b.effort
             n == [b EXCEPT !.effort = m]
  <1>1. /\ NormalizeReasoning(b, target).body = n
        /\ ~NormalizeReasoning(b, target).changed => n = b
    BY PreparedFacts DEF NormalizeReasoning
  <1>2. m \in {None, "max", "xhigh", "other"}
    BY DEF Bodies
  <1> HIDE DEF m
  <1>3. n \in Bodies /\ n.effort = m
    BY <1>2 DEF Bodies
  <1> HIDE DEF n
  <1> QED
    BY <1>1, <1>2, <1>3 DEF n
\* DeepSeek: the items that are left, and the fields.
Plain == {i \in Items : i.type = "reasoning" => i.enc = None /\ i.text = "content"}

LEMMA DeepSeekReasoningFacts ==
  ASSUME NEW i \in Items, i.type = "reasoning"
  PROVE  DeepSeekReasoning(i) \in Seq(Plain \cap Unstrung)
  <1>1. [i EXCEPT !.text = "content", !.enc = None] \in Items
    BY DEF Items
  <1> DEFINE j == [i EXCEPT !.text = "content", !.enc = None]
  <1>2. j.type = "reasoning" /\ j.enc = None /\ j.text = "content"
    BY DEF Items
  <1>3. j \in Plain \cap Unstrung
    BY <1>1, <1>2 DEF Plain, Unstrung
  <1>4. DeepSeekReasoning(i) = <<>> \/ DeepSeekReasoning(i) = <<j>>
    BY DEF DeepSeekReasoning
  <1> HIDE DEF j
  <1>5. <<>> \in Seq(Plain \cap Unstrung) /\ <<j>> \in Seq(Plain \cap Unstrung)
    BY <1>3
  <1> QED
    BY <1>4, <1>5

DeepSeekPieces(input) ==
  [k \in DOMAIN input |->
     IF input[k].type = "reasoning" THEN DeepSeekReasoning(input[k]) ELSE <<input[k]>>]

LEMMA FlattenOne ==
  ASSUME NEW S, NEW s \in Seq(S)
  PROVE  FlattenSeq(<<s>>) = s
  <1>1. <<>> \in Seq(Seq(S)) /\ <<s>> = Append(<<>>, s)
    OBVIOUS
  <1>2. FlattenSeq(<<>>) = <<>>
    BY DEF FlattenSeq
  <1>3. FlattenSeq(<<s>>) = FlattenSeq(<<>>) \o s
    BY <1>1, FlattenAppend
  <1>4. <<>> \o s = s
    OBVIOUS
  <1> QED
    BY <1>2, <1>3, <1>4

LEMMA DeepSeekInput ==
  ASSUME NEW input \in Seq(Items), Given(input)
  PROVE  /\ FlattenSeq(DeepSeekPieces(input)) \in Seq(Plain)
         /\ Given(FlattenSeq(DeepSeekPieces(input)))
  <1> DEFINE p == DeepSeekPieces(input)
  <1>1. p = [k \in DOMAIN input |-> p[k]]
    BY DEF DeepSeekPieces
  <1>2. ASSUME NEW k \in DOMAIN input
        PROVE  /\ p[k] \in Seq(Plain)
               /\ input[k].type # "string" => p[k] \in Seq(Unstrung)
    <2>1. input[k] \in Items
      BY ElementOfSeq, LenProperties
    <2>2. CASE input[k].type = "reasoning"
      <3>1. p[k] \in Seq(Plain \cap Unstrung)
        BY <2>1, <2>2, DeepSeekReasoningFacts DEF DeepSeekPieces
      <3> HIDE DEF p
      <3> QED BY <3>1
    <2>3. CASE input[k].type # "reasoning"
      <3>1. p[k] = <<input[k]>>
        BY <2>3 DEF DeepSeekPieces
      <3>2. input[k] \in Plain /\ (input[k].type # "string" => input[k] \in Unstrung)
        BY <2>1, <2>3 DEF Plain, Unstrung
      <3> HIDE DEF p
      <3> QED BY <3>1, <3>2
    <2> QED BY <2>2, <2>3
  <1>3. CASE input = StringInput
    <2>1. p = <<StringInput>>
      <3>1. \A k \in DOMAIN input : p[k] = <<input[k]>>
        BY <1>3, StringInputFacts DEF DeepSeekPieces
      <3>2. StringInput = <<StringInput[1]>>
        BY DEF StringInput
      <3> HIDE DEF p
      <3>3. p = [k \in 1..1 |-> StringInput]
        BY <1>1, <1>3, <3>1, <3>2, StringInputFacts
      <3> QED BY <3>3
    <2>2. FlattenSeq(p) = StringInput
      BY <2>1, StringInputFacts, FlattenOne
    <2>3. p[1] \in Seq(Plain)
      BY <1>2, <1>3, StringInputFacts
    <2>4. StringInput \in Seq(Plain)
      <3> HIDE DEF p
      <3> QED BY <2>1, <2>3
    <2> QED BY <2>2, <2>4 DEF Given
  <1>4. CASE \A k \in DOMAIN input : input[k].type # "string"
    <2>1. \A k \in DOMAIN input : p[k] \in Seq(Plain) /\ p[k] \in Seq(Unstrung)
      BY <1>2, <1>4
    <2> HIDE DEF p
    <2>2. p \in Seq(Seq(Plain)) /\ p \in Seq(Seq(Unstrung))
      BY <1>1, <2>1, MapType
    <2>3. FlattenSeq(p) \in Seq(Plain) /\ FlattenSeq(p) \in Seq(Unstrung)
      BY <2>2, FlattenType
    <2>4. \A k \in DOMAIN FlattenSeq(p) : FlattenSeq(p)[k] \in Unstrung
      BY <2>3, ElementOfSeq, LenProperties
    <2> QED BY <2>3, <2>4 DEF Given, Unstrung, p
  <1> QED
    BY <1>3, <1>4 DEF Given

LEMMA DeepSeekFacts ==
  ASSUME NEW b \in Bodies, Given(b.input)
  PROVE  LET p == PrepareDeepSeek(b)
         IN  /\ p.body \in Bodies /\ Given(p.body.input)
             /\ p.body.model = b.model /\ p.body.tools = b.tools /\ p.body.suite = b.suite
             /\ ~p.changed => p.body = b
             /\ ~DeepSeekRefuses(b) => DeepSeekUnderstands(p.body)
  <1> DEFINE input == FlattenSeq(DeepSeekPieces(b.input))
             n == [b EXCEPT !.key = None, !.include = None,
                            !.fields = b.fields \ DeepSeekStripped, !.input = input]
  <1>1. PrepareDeepSeek(b).body = n /\ (~PrepareDeepSeek(b).changed => n = b)
    BY PreparedFacts DEF PrepareDeepSeek, DeepSeekPieces
  <1>2. b.input \in Seq(Items)
    BY DEF Bodies
  <1>3. input \in Seq(Plain) /\ Given(input)
    BY <1>2, DeepSeekInput
  <1> HIDE DEF input
  <1>4. input \in Seq(Items) /\ \A k \in DOMAIN input : input[k] \in Plain
    BY <1>3, ElementOfSeq, LenProperties DEF Plain
  <1>5. n \in Bodies
    BY <1>4 DEF Bodies
  <1>6. /\ n.model = b.model /\ n.tools = b.tools /\ n.suite = b.suite
        /\ n.key = None /\ n.include = None /\ n.fields = b.fields \ DeepSeekStripped
        /\ n.store = b.store /\ n.parallel = b.parallel /\ n.input = input
    BY DEF Bodies
  <1> HIDE DEF n
  <1>7. ASSUME ~DeepSeekRefuses(b)
        PROVE  DeepSeekUnderstands(n)
    <2>1. /\ b.store # "true" /\ b.parallel # "false" /\ b.tools \subseteq DeepSeekTools
          /\ b.fields \cap DeepSeekRefused = {}
      BY <1>7 DEF DeepSeekRefuses
    <2>2. n.fields \cap (DeepSeekStripped \cup DeepSeekRefused) = {}
      <3> HIDE DEF DeepSeekStripped, DeepSeekRefused
      <3> QED BY <1>6, <2>1
    <2> QED
      BY <1>4, <1>6, <2>1, <2>2 DEF DeepSeekUnderstands, Plain
  <1> QED
    BY <1>1, <1>3, <1>5, <1>6, <1>7

LEMMA ProviderFacts ==
  ASSUME NEW b \in Bodies, Given(b.input), NEW target, NEW caller
  PROVE  LET p == PrepareProvider(b, target, caller)
         IN  /\ p.body \in Bodies /\ Given(p.body.input)
             /\ p.body.model = b.model /\ p.body.tools = b.tools /\ p.body.suite = b.suite
             /\ ~p.changed => p.body = b
             /\ target.deepseek /\ b.suite = "responses" /\ ~DeepSeekRefuses(b)
                  => DeepSeekUnderstands(p.body)
  <1> DEFINE deepseek == target.deepseek /\ b.suite = "responses"
             keyed == IF deepseek THEN Prepared(b, b) ELSE InjectCacheKey(b, caller)
             effort == NormalizeReasoning(keyed.body, target)
             last == IF deepseek THEN PrepareDeepSeek(effort.body)
                                 ELSE Prepared(effort.body, effort.body)
  <1>1. /\ PrepareProvider(b, target, caller).body = last.body
        /\ PrepareProvider(b, target, caller).changed
             <=> keyed.changed \/ effort.changed \/ last.changed
    BY DEF PrepareProvider
  <1>2. /\ keyed.body \in Bodies /\ keyed.body = [b EXCEPT !.key = keyed.body.key]
        /\ ~keyed.changed => keyed.body = b
        /\ deepseek => keyed.body = b
    <2>1. CASE deepseek
      <3>1. keyed.body = b
        BY <2>1, PreparedFacts
      <3>2. b = [b EXCEPT !.key = b.key]
        BY DEF Bodies
      <3> HIDE DEF keyed
      <3> QED BY <3>1, <3>2
    <2>2. CASE ~deepseek
      <3>1. keyed = InjectCacheKey(b, caller)
        BY <2>2
      <3> HIDE DEF keyed
      <3> QED BY <2>2, <3>1, CacheKeyFacts
    <2> QED BY <2>1, <2>2
  <1> HIDE DEF keyed
  <1>3. /\ effort.body \in Bodies
        /\ effort.body = [keyed.body EXCEPT !.effort = effort.body.effort]
        /\ ~effort.changed => effort.body = keyed.body
    BY <1>2, ReasoningFacts
  <1> HIDE DEF effort
  <1> DEFINE e == effort.body
  <1>4. /\ e.model = b.model /\ e.tools = b.tools /\ e.suite = b.suite /\ e.input = b.input
        /\ e.fields = b.fields /\ e.store = b.store /\ e.parallel = b.parallel
        /\ e.tier = b.tier
    <2>1. LET d == keyed.body
          IN  /\ d.model = b.model /\ d.tools = b.tools /\ d.suite = b.suite
              /\ d.input = b.input /\ d.fields = b.fields /\ d.store = b.store
              /\ d.parallel = b.parallel /\ d.tier = b.tier
      BY <1>2 DEF Bodies
    <2>2. LET d == keyed.body
          IN  /\ e.model = d.model /\ e.tools = d.tools /\ e.suite = d.suite
              /\ e.input = d.input /\ e.fields = d.fields /\ e.store = d.store
              /\ e.parallel = d.parallel /\ e.tier = d.tier
      BY <1>2, <1>3 DEF Bodies
    <2> QED BY <2>1, <2>2
  <1> HIDE DEF e
  <1>5. DeepSeekRefuses(e) <=> DeepSeekRefuses(b)
    BY <1>4 DEF DeepSeekRefuses
  <1>6. /\ last.body \in Bodies /\ Given(last.body.input)
        /\ last.body.model = e.model /\ last.body.tools = e.tools /\ last.body.suite = e.suite
        /\ ~last.changed => last.body = e
        /\ deepseek /\ ~DeepSeekRefuses(e) => DeepSeekUnderstands(last.body)
    <2>0. e \in Bodies /\ Given(e.input)
      BY <1>3, <1>4 DEF e
    <2>1. CASE deepseek
      <3>1. last = PrepareDeepSeek(e)
        BY <2>1 DEF e
      <3> HIDE DEF last
      <3> QED BY <2>0, <3>1, DeepSeekFacts
    <2>2. CASE ~deepseek
      <3>1. last.body = e
        BY <2>2, PreparedFacts DEF e
      <3> HIDE DEF last, deepseek
      <3> QED BY <2>0, <2>2, <3>1
    <2> QED BY <2>1, <2>2
  <1> HIDE DEF last
  <1>7. ~keyed.changed /\ ~effort.changed /\ ~last.changed => last.body = b
    BY <1>2, <1>3, <1>6 DEF e
  <1> QED
    BY <1>1, <1>4, <1>5, <1>6, <1>7
\* Codex: the items after each of its normalisations.
Shaped == {i \in Items : /\ i.type # "string" /\ i.role # "system"
                         /\ i.id # "long" /\ i.breakpoint = FALSE}
Replayed == {i \in Shaped : i.type = "reasoning" =>
               \/ i.enc = "gpt"
               \/ i.enc = None /\ i.text = "summary" /\ i.id = None}

LEMMA ShortenFacts ==
  ASSUME NEW i \in Items
  PROVE  /\ ShortenId(i) \in Items /\ ShortenId(i).id # "long"
         /\ ShortenId(i).type = i.type /\ ShortenId(i).role = i.role
         /\ ShortenId(i).enc = i.enc /\ ShortenId(i).text = i.text
         /\ ShortenId(i).breakpoint = i.breakpoint
         /\ i.id = None => ShortenId(i).id = None
  <1> DEFINE d == IF i.id = "long" THEN "cut" ELSE i.id
             n == [i EXCEPT !.id = d]
  <1>1. d \in Ids \cup {None} /\ d # "long" /\ (i.id = None => d = None)
    BY NoneAssumption DEF Items, Ids
  <1>2. ShortenId(i) = n
    BY DEF ShortenId
  <1> HIDE DEF d
  <1>3. /\ n \in Items /\ n.id = d /\ n.type = i.type /\ n.role = i.role /\ n.enc = i.enc
        /\ n.text = i.text /\ n.breakpoint = i.breakpoint
    BY <1>1 DEF Items
  <1> HIDE DEF n
  <1> QED
    BY <1>1, <1>2, <1>3

LEMMA CodexItemFacts ==
  ASSUME NEW i \in Items, i.type # "string"
  PROVE  CodexItem(i) \in Shaped
  <1> DEFINE s == ShortenId(i)
             r == IF s.role = "system" THEN "developer" ELSE s.role
             n == [s EXCEPT !.role = r, !.breakpoint = FALSE]
  <1>1. CodexItem(i) = n
    BY DEF CodexItem
  <1>2. s \in Items /\ s.id # "long" /\ s.type # "string"
    BY ShortenFacts
  <1> HIDE DEF s
  <1>3. r \in {None, "user", "assistant", "system", "developer"} /\ r # "system"
    BY <1>2 DEF Items
  <1> HIDE DEF r
  <1>4. n \in Items
    BY <1>2, <1>3 DEF Items
  <1>5. n.id = s.id /\ n.type = s.type /\ n.role = r /\ n.breakpoint = FALSE
    BY <1>2 DEF Items
  <1> HIDE DEF n
  <1> QED
    BY <1>1, <1>2, <1>3, <1>4, <1>5 DEF Shaped

LEMMA CodexInputFacts ==
  ASSUME NEW input \in Seq(Items), Given(input)
  PROVE  CodexInput(input) \in Seq(Shaped)
  <1>1. CASE input = StringInput
    <2>1. Item("message", "user") \in Shaped
      BY StringInputFacts, NoneAssumption DEF Shaped, Unstrung, Ids
    <2>2. CodexInput(input) = <<Item("message", "user")>>
      BY <1>1 DEF CodexInput
    <2> QED BY <2>1, <2>2
  <1>2. CASE input # StringInput
    <2> DEFINE m == CodexInput(input)
    <2>1. m = [k \in DOMAIN input |-> CodexItem(input[k])]
      BY <1>2 DEF CodexInput
    <2> HIDE DEF m
    <2>2. m = [k \in DOMAIN input |-> m[k]]
      BY <2>1
    <2>3. \A k \in DOMAIN input : m[k] \in Shaped
      <3> TAKE k \in DOMAIN input
      <3>1. input[k] \in Items /\ input[k].type # "string"
        BY <1>2, ElementOfSeq, LenProperties DEF Given
      <3> QED BY <2>1, <3>1, CodexItemFacts
    <2>4. m \in Seq(Shaped)
      BY <2>2, <2>3, MapType
    <2> QED BY <2>4 DEF m
  <1> QED
    BY <1>1, <1>2

LEMMA PrepareCodexFacts ==
  ASSUME NEW b \in Bodies, Given(b.input), NEW websocket \in BOOLEAN
  PROVE  LET p == PrepareCodex(b, websocket)
         IN  /\ p.body \in Bodies /\ p.body.model = b.model /\ p.body.tools = b.tools
             /\ p.body.suite = b.suite
             /\ p.body.stream /\ p.body.instructions /\ p.body.store = "false"
             /\ p.body.include = "encrypted" /\ p.body.parallel = "true"
             /\ p.body.tier \in {None, "priority"}
             /\ p.body.fields \cap CodexStripped = {}
             /\ ~websocket => p.body.fields \cap HttpStripped = {}
             /\ p.body.input \in Seq(Shaped)
             /\ ~p.changed => p.body = b
  <1> DEFINE input == CodexInput(b.input)
             fields == b.fields \ (CodexStripped \cup (IF websocket THEN {} ELSE HttpStripped))
             tier == IF b.tier = "priority" THEN b.tier ELSE None
             n == [b EXCEPT !.stream = TRUE, !.instructions = TRUE, !.store = "false",
                     !.include = "encrypted", !.parallel = "true", !.fields = fields,
                     !.tier = tier, !.input = input]
  <1>1. /\ PrepareCodex(b, websocket).body = n
        /\ ~PrepareCodex(b, websocket).changed => n = b
    BY PreparedFacts DEF PrepareCodex
  <1>2. input \in Seq(Shaped) /\ input \in Seq(Items)
    <2>1. b.input \in Seq(Items)
      BY DEF Bodies
    <2>2. input \in Seq(Shaped)
      BY <2>1, CodexInputFacts
    <2> HIDE DEF input
    <2> QED BY <2>2 DEF Shaped
  <1>3. /\ fields \in SUBSET STRING /\ fields \cap CodexStripped = {}
        /\ ~websocket => fields \cap HttpStripped = {}
    <2>1. b.fields \in SUBSET STRING
      BY DEF Bodies
    <2> HIDE DEF CodexStripped, HttpStripped
    <2> QED BY <2>1
  <1>4. tier \in {None, "priority"}
    OBVIOUS
  <1> HIDE DEF input, fields, tier
  <1>5. n \in Bodies
    BY <1>2, <1>3, <1>4 DEF Bodies, Flags
  <1>6. /\ n.model = b.model /\ n.tools = b.tools /\ n.suite = b.suite
        /\ n.stream = TRUE /\ n.instructions = TRUE /\ n.store = "false"
        /\ n.include = "encrypted" /\ n.parallel = "true" /\ n.tier = tier
        /\ n.fields = fields /\ n.input = input
    BY DEF Bodies
  <1> HIDE DEF n
  <1> QED
    BY <1>1, <1>2, <1>3, <1>4, <1>5, <1>6

LEMMA SingleFacts ==
  ASSUME NEW S, NEW x \in S
  PROVE  <<x>> \in Seq(S) /\ DOMAIN <<x>> = 1..1 /\ Len(<<x>>) = 1
  <1>1. <<x>> \in Seq(S) /\ Len(<<x>>) = 1
    OBVIOUS
  <1> QED
    BY <1>1, LenProperties

LEMMA ReplayFacts ==
  ASSUME NEW i \in Shaped, i.type = "reasoning", NEW anthropic \in BOOLEAN, NEW signature
  PROVE  [j \in DOMAIN ReplayReasoning(i, anthropic, signature) |->
            ShortenId(ReplayReasoning(i, anthropic, signature)[j])] \in Seq(Replayed)
  <1> DEFINE a == [i EXCEPT !.enc = "gpt", !.text = None]
             c == [i EXCEPT !.enc = None, !.id = None]
             r == ReplayReasoning(i, anthropic, signature)
  <1>1. \/ r = <<>>
        \/ r = <<a>>
        \/ r = <<i>> /\ i.enc = "gpt"
        \/ r = <<c>> /\ i.text = "summary"
    BY DEF ReplayReasoning
  <1>2. i \in Items
    BY DEF Shaped
  <1>3. /\ a \in Items /\ a.enc = "gpt" /\ a.type = i.type /\ a.role = i.role
        /\ a.breakpoint = i.breakpoint
    BY <1>2 DEF Items, Ciphers
  <1>4. /\ c \in Items /\ c.enc = None /\ c.id = None /\ c.text = i.text /\ c.type = i.type
        /\ c.role = i.role /\ c.breakpoint = i.breakpoint
    BY <1>2 DEF Items
  <1> HIDE DEF a, c, r
  <1>5. r \in Seq(Items) /\ (r # <<>> => DOMAIN r = 1..1)
    <2>1. \A x \in Items : <<x>> \in Seq(Items) /\ DOMAIN <<x>> = 1..1
      BY SingleFacts
    <2>2. a \in Items /\ c \in Items
      BY <1>3, <1>4
    <2>3. CASE r = <<>>
      BY <2>3
    <2>4. CASE r = <<a>>
      BY <2>1, <2>2, <2>4
    <2>5. CASE r = <<i>>
      BY <1>2, <2>1, <2>5
    <2>6. CASE r = <<c>>
      BY <2>1, <2>2, <2>6
    <2> QED BY <1>1, <2>3, <2>4, <2>5, <2>6
  <1>7. ShortenId(a) \in Replayed
    BY <1>3, ShortenFacts DEF Replayed, Shaped
  <1>8. i.enc = "gpt" => ShortenId(i) \in Replayed
    BY <1>2, ShortenFacts DEF Replayed, Shaped
  <1>9. i.text = "summary" => ShortenId(c) \in Replayed
    BY <1>4, ShortenFacts DEF Replayed, Shaped
  <1> DEFINE m == [j \in DOMAIN r |-> ShortenId(r[j])]
  <1>10. \A j \in DOMAIN r : m[j] \in Replayed
    <2> TAKE j \in DOMAIN r
    <2>1. CASE r = <<>>
      BY <2>1
    <2>2. CASE r # <<>>
      <3>1. j = 1
        BY <1>5, <2>2
      <3> QED BY <1>1, <1>7, <1>8, <1>9, <2>2, <3>1
    <2> QED BY <2>1, <2>2
  <1>11. m = [j \in DOMAIN r |-> m[j]]
    OBVIOUS
  <1> HIDE DEF m
  <1>12. m \in Seq(Replayed)
    BY <1>5, <1>10, <1>11, MapType
  <1> QED
    BY <1>12 DEF m, r

LEMMA NormalizeReplayFacts ==
  ASSUME NEW b \in Bodies, b.input \in Seq(Shaped), NEW anthropic \in BOOLEAN,
         NEW signatures
  PROVE  LET p == NormalizeReplay(b, anthropic, signatures)
         IN  /\ p.body.input \in Seq(Replayed) /\ p.body \in Bodies
             /\ p.body = [b EXCEPT !.input = p.body.input]
             /\ ~p.changed => p.body = b
  <1> DEFINE sig(k) == LET n == NthReasoning(b.input, k)
                       IN  IF n \in DOMAIN signatures THEN signatures[n] ELSE None
             back(k) == ReplayReasoning(b.input[k], anthropic, sig(k))
             replay(k) == IF b.input[k].type # "reasoning" THEN <<ShortenId(b.input[k])>>
                          ELSE [j \in DOMAIN back(k) |-> ShortenId(back(k)[j])]
             m == [k \in DOMAIN b.input |-> replay(k)]
             n == [b EXCEPT !.input = FlattenSeq(m)]
  <1>1. /\ NormalizeReplay(b, anthropic, signatures).body = n
        /\ ~NormalizeReplay(b, anthropic, signatures).changed => n = b
    BY PreparedFacts DEF NormalizeReplay
  <1>2. ASSUME NEW k \in DOMAIN b.input
        PROVE  replay(k) \in Seq(Replayed)
    <2>1. b.input[k] \in Shaped /\ b.input[k] \in Items
      BY ElementOfSeq, LenProperties DEF Shaped
    <2>2. CASE b.input[k].type # "reasoning"
      <3>1. ShortenId(b.input[k]) \in Replayed
        BY <2>1, <2>2, ShortenFacts DEF Replayed, Shaped
      <3> QED BY <2>2, <3>1
    <2>3. CASE b.input[k].type = "reasoning"
      <3> HIDE DEF sig
      <3>1. [j \in DOMAIN back(k) |-> ShortenId(back(k)[j])] \in Seq(Replayed)
        BY <2>1, <2>3, ReplayFacts
      <3>2. replay(k) = [j \in DOMAIN back(k) |-> ShortenId(back(k)[j])]
        BY <2>3
      <3> HIDE DEF replay, back
      <3> QED BY <3>1, <3>2
    <2> QED BY <2>2, <2>3
  <1> HIDE DEF replay
  <1>3. m = [k \in DOMAIN b.input |-> m[k]] /\ \A k \in DOMAIN b.input : m[k] \in Seq(Replayed)
    BY <1>2
  <1> HIDE DEF m
  <1>4. m \in Seq(Seq(Replayed))
    BY <1>3, MapType
  <1>5. FlattenSeq(m) \in Seq(Replayed)
    BY <1>4, FlattenType
  <1>6. FlattenSeq(m) \in Seq(Items)
    BY <1>5 DEF Replayed, Shaped
  <1>7. n \in Bodies /\ n.input = FlattenSeq(m)
    BY <1>6 DEF Bodies
  <1> HIDE DEF n
  <1> QED
    BY <1>1, <1>5, <1>7 DEF n

LEMMA NormalizeParallelFacts ==
  ASSUME NEW b \in Bodies, NEW lite
  PROVE  LET p == NormalizeParallel(b, lite)
             f == IF lite THEN "false" ELSE IF b.tools = {} THEN None ELSE b.parallel
         IN  /\ p.body \in Bodies /\ p.body = [b EXCEPT !.parallel = f]
             /\ ~p.changed => p.body = b
  <1> DEFINE f == IF lite THEN "false" ELSE IF b.tools = {} THEN None ELSE b.parallel
             n == [b EXCEPT !.parallel = f]
  <1>1. NormalizeParallel(b, lite).body = n /\ (~NormalizeParallel(b, lite).changed => n = b)
    BY PreparedFacts DEF NormalizeParallel
  <1>2. f \in Flags \cup {None}
    BY DEF Bodies, Flags
  <1> HIDE DEF f
  <1>3. n \in Bodies
    BY <1>2 DEF Bodies
  <1> HIDE DEF n
  <1> QED
    BY <1>1, <1>3 DEF n, f

LEMMA SessionKeyFacts ==
  ASSUME NEW b \in Bodies, NEW session \in {None, "session"}
  PROVE  LET p == SetSessionKey(b, session)
         IN  /\ p.body \in Bodies /\ p.body = [b EXCEPT !.key = p.body.key]
             /\ ~p.changed => p.body = b
  <1> DEFINE f == IF session = None THEN b.key ELSE session
             n == [b EXCEPT !.key = f]
  <1>1. SetSessionKey(b, session).body = n /\ (~SetSessionKey(b, session).changed => n = b)
    BY PreparedFacts DEF SetSessionKey
  <1>2. f \in Keys \cup {None}
    BY DEF Bodies, Keys
  <1> HIDE DEF f
  <1>3. n \in Bodies /\ n.key = f
    BY <1>2 DEF Bodies
  <1> HIDE DEF n
  <1> QED
    BY <1>1, <1>3 DEF n

\* What the profile of a Codex subscription makes of a body, and that "unchanged"
\* means it.
LEMMA CodexEgressFacts ==
  ASSUME NEW b \in Bodies, Given(b.input), "long" \notin b.tools,
         NEW websocket \in BOOLEAN, NEW anthropic \in BOOLEAN, NEW signatures,
         NEW session \in {None, "session"}, req.lite \in BOOLEAN
  PROVE  LET p == PrepareCodexEgress(b, websocket, anthropic, signatures, req.lite, session)
         IN  /\ p.body \in Bodies /\ p.body.model = b.model /\ p.body.suite = b.suite
             /\ CodexFits(p.body, ~websocket)
             /\ ~p.changed => p.body = b
  <1> DEFINE shaped == PrepareCodex(b, websocket)
             replay == NormalizeReplay(shaped.body, anthropic, signatures)
             calls == NormalizeParallel(replay.body, req.lite)
             keyed == SetSessionKey(calls.body, session)
             p == PrepareCodexEgress(b, websocket, anthropic, signatures, req.lite, session)
             flag == IF req.lite THEN "false" ELSE IF b.tools = {} THEN None ELSE "true"
             k == keyed.body
  <1>1. /\ p.body = keyed.body
        /\ p.changed <=> shaped.changed \/ replay.changed \/ calls.changed \/ keyed.changed
    BY DEF PrepareCodexEgress
  <1>2. /\ shaped.body \in Bodies /\ shaped.body.model = b.model
        /\ shaped.body.tools = b.tools /\ shaped.body.suite = b.suite
        /\ shaped.body.stream /\ shaped.body.instructions /\ shaped.body.store = "false"
        /\ shaped.body.include = "encrypted" /\ shaped.body.parallel = "true"
        /\ shaped.body.tier \in {None, "priority"}
        /\ shaped.body.fields \cap CodexStripped = {}
        /\ ~websocket => shaped.body.fields \cap HttpStripped = {}
        /\ shaped.body.input \in Seq(Shaped)
        /\ ~shaped.changed => shaped.body = b
    BY PrepareCodexFacts
  <1> HIDE DEF shaped
  <1>3. /\ replay.body.input \in Seq(Replayed) /\ replay.body \in Bodies
        /\ replay.body = [shaped.body EXCEPT !.input = replay.body.input]
        /\ ~replay.changed => replay.body = shaped.body
    BY <1>2, NormalizeReplayFacts
  <1> HIDE DEF replay
  <1>4. replay.body.tools = b.tools /\ replay.body.parallel = "true"
    BY <1>2, <1>3 DEF Bodies
  <1>5. /\ calls.body \in Bodies /\ calls.body = [replay.body EXCEPT !.parallel = flag]
        /\ ~calls.changed => calls.body = replay.body
    <2>1. flag = IF req.lite THEN "false"
                 ELSE IF replay.body.tools = {} THEN None ELSE replay.body.parallel
      BY <1>4
    <2> HIDE DEF flag
    <2> QED BY <1>3, <2>1, NormalizeParallelFacts
  <1> HIDE DEF calls, flag
  <1>6. /\ keyed.body \in Bodies /\ keyed.body = [calls.body EXCEPT !.key = keyed.body.key]
        /\ ~keyed.changed => keyed.body = calls.body
    BY <1>5, SessionKeyFacts
  <1> HIDE DEF keyed
  <1>7. LET r == replay.body
            s == shaped.body
        IN  /\ r.model = s.model /\ r.tools = s.tools /\ r.suite = s.suite
            /\ r.stream = s.stream /\ r.instructions = s.instructions /\ r.store = s.store
            /\ r.include = s.include /\ r.tier = s.tier /\ r.fields = s.fields
    BY <1>2, <1>3 DEF Bodies
  <1>8. LET r == replay.body
            c == calls.body
        IN  /\ c.model = r.model /\ c.tools = r.tools /\ c.suite = r.suite
            /\ c.stream = r.stream /\ c.instructions = r.instructions /\ c.store = r.store
            /\ c.include = r.include /\ c.tier = r.tier /\ c.fields = r.fields
            /\ c.input = r.input /\ c.parallel = flag
    BY <1>3, <1>5 DEF Bodies
  <1>9. LET c == calls.body
        IN  /\ k.model = c.model /\ k.tools = c.tools /\ k.suite = c.suite
            /\ k.stream = c.stream /\ k.instructions = c.instructions /\ k.store = c.store
            /\ k.include = c.include /\ k.tier = c.tier /\ k.fields = c.fields
            /\ k.input = c.input /\ k.parallel = c.parallel
    BY <1>5, <1>6 DEF Bodies
  <1> HIDE DEF k
  <1>10. /\ k.model = b.model /\ k.tools = b.tools /\ k.suite = b.suite
         /\ k.stream /\ k.instructions /\ k.store = "false" /\ k.include = "encrypted"
         /\ k.tier \in {None, "priority"} /\ k.fields \cap CodexStripped = {}
         /\ ~websocket => k.fields \cap HttpStripped = {}
         /\ k.parallel = flag /\ k.input \in Seq(Replayed)
    BY <1>2, <1>3, <1>7, <1>8, <1>9
  <1>11. \A j \in DOMAIN k.input : k.input[j] \in Replayed
    BY <1>10, ElementOfSeq, LenProperties
  <1>12. CodexFits(k, ~websocket)
    BY <1>10, <1>11 DEF CodexFits, CodexReads, CallsAsAllowed, FitForHttp, Replayed, Shaped,
                       flag
  <1>13. ~p.changed => k = b
    <2> HIDE DEF p
    <2> QED BY <1>1, <1>2, <1>3, <1>5, <1>6 DEF k
  <1> QED
    BY <1>1, <1>6, <1>10, <1>12, <1>13 DEF k

LEMMA AnthropicFacts ==
  ASSUME NEW b \in Bodies
  PROVE  LET p == PrepareAnthropic(b)
         IN  /\ p.body \in Bodies
             /\ ~p.changed => p.body = b
             /\ p.body = [b EXCEPT !.thinking = p.body.thinking, !.billing = p.body.billing]
  <1> DEFINE t == IF b.thinking = "plain" THEN "displayed" ELSE b.thinking
             w == IF b.billing = None THEN None ELSE "signed"
             n == [b EXCEPT !.thinking = t, !.billing = w]
  <1>1. /\ PrepareAnthropic(b).body = n
        /\ PrepareAnthropic(b).changed <=> b.thinking = "plain" \/ b.billing # None
    BY DEF PrepareAnthropic
  <1>2. t \in {None, "plain", "displayed"} /\ w \in {None, "stale", "signed"}
    BY DEF Bodies
  <1>3. ~(b.thinking = "plain" \/ b.billing # None) => t = b.thinking /\ w = b.billing
    OBVIOUS
  <1> HIDE DEF t, w
  <1>4. n \in Bodies /\ n.thinking = t /\ n.billing = w
    BY ZenonT(60), <1>2 DEF Bodies
  <1>5. t = b.thinking /\ w = b.billing => n = b
    BY DEF Bodies
  <1> HIDE DEF n
  <1> QED
    BY <1>1, <1>3, <1>4, <1>5 DEF n
-----------------------------------------------------------------------------
(* The bodies of an attempt.                                                 *)

LEMMA RequestFacts ==
  ASSUME req \in Requests
  PROVE  /\ req.body \in Bodies /\ Given(req.body.input) /\ req.exec \in Executors
         /\ req.target.suite \in Suites /\ req.ingress \in Suites
         /\ req.lite \in BOOLEAN /\ req.stream \in BOOLEAN /\ req.raw \in BOOLEAN
         /\ req.session \in {None, "session"} /\ req.client \subseteq RequestNames
         /\ Websocket \in BOOLEAN /\ Codex \in BOOLEAN
  <1>1. req \in Attempts /\ Given(req.body.input)
    BY ExecutorAssumption DEF Given
  <1>2. /\ req.body \in Bodies /\ req.exec \in Executors /\ req.target \in Targets
        /\ req.ingress \in Suites /\ req.lite \in BOOLEAN /\ req.stream \in BOOLEAN
        /\ req.raw \in BOOLEAN /\ req.session \in {None, "session"}
        /\ req.client \subseteq RequestNames
    <2> HIDE DEF Bodies, Executors, Targets, Suites, RequestNames
    <2> QED BY <1>1 DEF Attempts
  <1>3. req.target.suite \in Suites /\ req.target.websocket \in BOOLEAN
    BY <1>2 DEF Targets
  <1> QED
    BY <1>1, <1>2, <1>3 DEF Websocket, Codex

LEMMA EncodedFacts ==
  ASSUME req \in Requests
  PROVE  Encoded \in Bodies /\ Given(Encoded.input)
  <1> DEFINE b == req.body
             kept == [k \in DOMAIN b.input |-> [b.input[k] EXCEPT !.breakpoint = FALSE]]
             input == IF b.input = StringInput THEN <<Item("message", "user")>> ELSE kept
             model == IF req.target.suite = "gemini" THEN None ELSE b.model
             fields == b.fields \cap {"temperature", "stop"}
             thinking == IF req.target.suite = "messages" THEN b.thinking ELSE None
             n == [b EXCEPT !.suite = req.target.suite, !.model = model, !.fields = fields,
                     !.key = None, !.include = None, !.store = None, !.tier = None,
                     !.billing = None, !.thinking = thinking, !.input = input]
  <1>1. Encoded = n
    BY DEF Encoded
  <1>2. b \in Bodies /\ Given(b.input) /\ req.target.suite \in Suites
    BY RequestFacts
  <1>3. b.input \in Seq(Items)
    BY <1>2 DEF Bodies
  <1>4. input \in Seq(Unstrung)
    <2>1. CASE b.input = StringInput
      BY <2>1, StringInputFacts, SingleFacts
    <2>2. CASE b.input # StringInput
      <3>1. \A k \in DOMAIN b.input : kept[k] \in Unstrung
        <4> TAKE k \in DOMAIN b.input
        <4>1. b.input[k] \in Items /\ b.input[k].type # "string"
          BY <1>2, <1>3, <2>2, ElementOfSeq, LenProperties DEF Given
        <4> DEFINE i == b.input[k]
        <4>2. kept[k] = [i EXCEPT !.breakpoint = FALSE]
          OBVIOUS
        <4> HIDE DEF i, kept
        <4>3. i \in Items /\ i.type # "string"
          BY <4>1 DEF i
        <4>4. [i EXCEPT !.breakpoint = FALSE] \in Unstrung
          BY <4>3 DEF Items, Unstrung
        <4> QED BY <4>2, <4>4
      <3>2. kept = [k \in DOMAIN b.input |-> kept[k]]
        OBVIOUS
      <3> HIDE DEF kept
      <3>3. kept \in Seq(Unstrung)
        BY <1>3, <3>1, <3>2, MapType
      <3> QED BY <2>2, <3>3
    <2> QED BY <2>1, <2>2
  <1>5. /\ model \in Models \cup {None} /\ fields \in SUBSET STRING
        /\ thinking \in {None, "plain", "displayed"}
    BY <1>2 DEF Bodies
  <1> HIDE DEF input, model, fields, thinking
  <1>6. input \in Seq(Items) /\ Given(input)
    <2>1. input \in Seq(Items)
      BY <1>4 DEF Unstrung
    <2>2. \A k \in DOMAIN input : input[k] \in Unstrung
      BY <1>4, ElementOfSeq, LenProperties
    <2> QED BY <2>1, <2>2 DEF Given, Unstrung
  <1> HIDE DEF b
  <1>7. n \in Bodies /\ n.input = input
    BY ZenonT(60), <1>2, <1>5, <1>6 DEF Bodies
  <1> HIDE DEF n
  <1> QED
    BY <1>1, <1>6, <1>7

LEMMA FirstFacts ==
  ASSUME req \in Requests
  PROVE  /\ FirstBody \in Bodies /\ Given(FirstBody.input)
         /\ PassThrough => FirstBody = req.body
  BY RequestFacts, EncodedFacts DEF FirstBody

\* A body whose preparation is not refused fits, and the client's bytes are sent
\* only when they are that body.
LEMMA JsonFacts ==
  ASSUME req \in Requests, ~JsonRefuses
  PROVE  /\ JsonBody.body \in Bodies /\ Fits(JsonBody.body)
         /\ PassThrough /\ ~JsonBody.changed => JsonBody.body = req.body
  <1> DEFINE named == OverrideModel(FirstBody)
             provider == PrepareProvider(named.body, req.target, req.caller)
             session == IF req.ingress = "messages" THEN req.session ELSE None
             anthropic == req.ingress = "messages"
             codex == IF Codex
                      THEN PrepareCodexEgress(provider.body, Websocket, anthropic,
                             req.signatures, req.lite, session)
                      ELSE Prepared(provider.body, provider.body)
             oauth == IF AnthropicOAuth THEN PrepareAnthropic(codex.body)
                                        ELSE Prepared(codex.body, codex.body)
  <1>1. /\ JsonBody.body = oauth.body
        /\ JsonBody.changed
             <=> named.changed \/ provider.changed \/ codex.changed \/ oauth.changed
    BY DEF JsonBody
  <1>2. /\ FirstBody \in Bodies /\ Given(FirstBody.input)
        /\ PassThrough => FirstBody = req.body
    BY FirstFacts
  <1>3. /\ ~ProviderRefuses(named.body, req.target)
        /\ Codex => "long" \notin FirstBody.tools
    BY DEF JsonRefuses, CodexRefuses
  <1>4. /\ named.body \in Bodies /\ named.body.model # "client"
        /\ named.body = [FirstBody EXCEPT !.model = named.body.model]
        /\ ~named.changed => named.body = FirstBody
    BY <1>2, OverrideFacts
  <1> HIDE DEF named
  <1>5. Given(named.body.input) /\ named.body.tools = FirstBody.tools
    <2>1. named.body.input = FirstBody.input /\ named.body.tools = FirstBody.tools
      BY <1>2, <1>4 DEF Bodies
    <2> QED BY <1>2, <2>1
  <1>6. /\ provider.body \in Bodies /\ Given(provider.body.input)
        /\ provider.body.model = named.body.model /\ provider.body.tools = named.body.tools
        /\ provider.body.suite = named.body.suite
        /\ ~provider.changed => provider.body = named.body
        /\ (req.target.deepseek /\ named.body.suite = "responses"
              /\ ~DeepSeekRefuses(named.body)) => DeepSeekUnderstands(provider.body)
    BY <1>4, <1>5, ProviderFacts
  <1>7. req.target.deepseek /\ provider.body.suite = "responses"
          => DeepSeekUnderstands(provider.body)
    BY <1>3, <1>6 DEF ProviderRefuses
  <1> HIDE DEF provider
  <1>8. /\ codex.body \in Bodies /\ codex.body.model # "client"
        /\ Codex => CodexFits(codex.body, ~Websocket)
        /\ ~Codex => codex.body = provider.body
        /\ ~codex.changed => codex.body = provider.body
    <2>1. CASE Codex
      <3>1. codex = PrepareCodexEgress(provider.body, Websocket, anthropic,
                      req.signatures, req.lite, session)
        BY <2>1
      <3>2. /\ Websocket \in BOOLEAN /\ anthropic \in BOOLEAN /\ session \in {None, "session"}
            /\ req.lite \in BOOLEAN /\ "long" \notin provider.body.tools
        BY <1>3, <1>5, <1>6, <2>1, RequestFacts
      <3> HIDE DEF codex, anthropic, session
      <3>3. /\ codex.body \in Bodies /\ codex.body.model = provider.body.model
            /\ CodexFits(codex.body, ~Websocket)
            /\ ~codex.changed => codex.body = provider.body
        BY <1>6, <3>1, <3>2, CodexEgressFacts
      <3> QED BY <1>4, <1>6, <2>1, <3>3
    <2>2. CASE ~Codex
      <3>1. codex.body = provider.body
        BY <2>2, PreparedFacts
      <3> HIDE DEF codex
      <3> QED BY <1>4, <1>6, <2>2, <3>1
    <2> QED BY <2>1, <2>2
  <1> HIDE DEF codex
  <1>9. /\ oauth.body \in Bodies
        /\ ~oauth.changed => oauth.body = codex.body
        /\ oauth.body = [codex.body EXCEPT !.thinking = oauth.body.thinking,
                                           !.billing = oauth.body.billing]
        /\ Codex => oauth.body = codex.body
    <2>1. CASE AnthropicOAuth
      <3>1. oauth = PrepareAnthropic(codex.body) /\ ~Codex
        BY <2>1 DEF AnthropicOAuth, Codex
      <3> HIDE DEF oauth
      <3> QED BY <1>8, <3>1, AnthropicFacts
    <2>2. CASE ~AnthropicOAuth
      <3>1. oauth.body = codex.body
        BY <2>2, PreparedFacts
      <3>2. codex.body = [codex.body EXCEPT !.thinking = codex.body.thinking,
                                            !.billing = codex.body.billing]
        BY <1>8 DEF Bodies
      <3> HIDE DEF oauth
      <3> QED BY <1>8, <3>1, <3>2
    <2> QED BY <2>1, <2>2
  <1> HIDE DEF oauth
  <1>10. LET o == oauth.body
             c == codex.body
         IN  /\ o.model = c.model /\ o.suite = c.suite /\ o.key = c.key
             /\ o.include = c.include /\ o.fields = c.fields /\ o.store = c.store
             /\ o.parallel = c.parallel /\ o.tools = c.tools /\ o.input = c.input
    BY <1>8, <1>9 DEF Bodies
  <1>11. DeepSeekUnderstands(codex.body) => DeepSeekUnderstands(oauth.body)
    BY <1>10 DEF DeepSeekUnderstands
  <1>12. Fits(oauth.body)
    <2>1. Codex => CodexFits(oauth.body, ~Websocket)
      BY <1>8, <1>9
    <2>2. req.target.deepseek /\ ~Codex /\ oauth.body.suite = "responses"
            => DeepSeekUnderstands(oauth.body)
      BY <1>7, <1>8, <1>10, <1>11
    <2>3. oauth.body.model # "client"
      BY <1>8, <1>10
    <2> QED BY <2>1, <2>2, <2>3 DEF Fits
  <1>13. ~JsonBody.changed => oauth.body = FirstBody
    BY <1>1, <1>4, <1>6, <1>8, <1>9
  <1> QED
    BY <1>1, <1>2, <1>9, <1>12, <1>13
-----------------------------------------------------------------------------
(* Headers.  Names are told apart by their words.                            *)

LEMMA NameFacts ==
  /\ Handshake \notin {Authorization, ContentType, Accept, TraceParent, Title, SessionId,
                       Account, Beta, Version, Opencode}
  /\ Authorization \notin {ContentType, Accept, TraceParent, Title, SessionId,
                           Account, Beta, Version, Opencode}
  /\ Title \notin {ContentType, Accept, TraceParent, SessionId, Account, Beta, Version,
                   Opencode}
  /\ ContentType \notin {TraceParent, Beta}
  <1>1. /\ Authorization[1] = "authorization" /\ ContentType[1] = "content"
        /\ Accept[1] = "accept" /\ TraceParent[1] = "trace" /\ Title[1] = "x"
        /\ SessionId[1] = "session" /\ Account[1] = "account" /\ Beta[1] = "beta"
        /\ Version[1] = "anthropic" /\ Opencode[1] = "opencode"
        /\ Handshake[1] = "sec-websocket"
    BY DEF Authorization, ContentType, Accept, TraceParent, Title, SessionId, Account,
           Beta, Version, Opencode, Handshake
  <1> QED
    BY <1>1

LEMMA OccursAtStart ==
  ASSUME NEW S, NEW part \in Seq(S), NEW name \in Seq(S), Len(part) <= Len(name),
         \A i \in 1..Len(part) : name[i] = part[i]
  PROVE  0 \in Occurrences(part, name, 0)
  <1>1. Len(part) \in Nat /\ Len(name) \in Nat
    OBVIOUS
  <1>2. SubSeq(name, 0 + 1, 0 + Len(part)) = part
    BY <1>1
  <1> QED
    BY <1>1, <1>2 DEF Occurrences

LEMMA OccursBehind ==
  ASSUME NEW part, NEW name, Len(name) \in Nat, NEW p \in Occurrences(part, name, 0)
  PROVE  0 <= p
  BY DEF Occurrences

\* A name is matched by itself, by its first word and a star, and by its first
\* word between stars.
LEMMA ExactMatches ==
  ASSUME NEW v, NEW w
  PROVE  GlobMatch(Exact(<<v, w>>), <<v, w>>)
  <1> DEFINE name == <<v, w>>
             parts == Exact(name)
             at == [i \in 0..1 |-> IF i = 0 THEN 0 ELSE 2]
             S == {v, w}
  <1>1. name \in Seq(S) /\ Len(name) = 2 /\ name # <<>>
    OBVIOUS
  <1>2. Len(parts) = 1 /\ parts[1] = name /\ Last(parts) = name
    BY DEF Exact, Last
  <1>3. at \in [0..1 -> 0..2] /\ at[0] = 0 /\ at[1] = 2
    OBVIOUS
  <1> HIDE DEF name, parts, at, S
  <1>4. 0 \in Occurrences(name, name, 0)
    BY <1>1, OccursAtStart
  <1>5. \A p \in Occurrences(name, name, 0) : 0 <= p
    BY <1>1, OccursBehind
  <1>6. at[1] - Len(name) = 0 /\ 1..Len(parts) = {1} /\ 1 - 1 = 0
    BY <1>1, <1>2, <1>3
  <1> QED
    BY <1>1, <1>2, <1>3, <1>4, <1>5, <1>6 DEF GlobMatch, name, parts

LEMMA PrefixMatches ==
  ASSUME NEW v, NEW w
  PROVE  GlobMatch(Prefix(<<v>>), <<v, w>>)
  <1> DEFINE name == <<v, w>>
             part == <<v>>
             parts == Prefix(part)
             at == [i \in 0..2 |-> IF i = 0 THEN 0 ELSE 1]
             S == {v, w}
  <1>1. /\ name \in Seq(S) /\ Len(name) = 2 /\ part \in Seq(S) /\ Len(part) = 1
        /\ part # <<>> /\ name[1] = part[1]
    OBVIOUS
  <1>2. Len(parts) = 2 /\ parts[1] = part /\ parts[2] = <<>> /\ Last(parts) = <<>>
    BY DEF Prefix, Last
  <1>3. at \in [0..2 -> 0..2] /\ at[0] = 0 /\ at[1] = 1 /\ at[2] = 1
    OBVIOUS
  <1> HIDE DEF name, part, parts, at, S
  <1>4. 0 \in Occurrences(part, name, 0)
    BY <1>1, OccursAtStart
  <1>5. \A p \in Occurrences(part, name, 0) : 0 <= p
    BY <1>1, OccursBehind
  <1>6. at[1] - Len(part) = 0 /\ 1..Len(parts) = {1, 2} /\ 1 - 1 = 0 /\ 2 - 1 = 1
    BY <1>1, <1>2, <1>3
  <1> QED
    BY <1>1, <1>2, <1>3, <1>4, <1>5, <1>6 DEF GlobMatch, name, part, parts

LEMMA ContainingMatches ==
  ASSUME NEW v, NEW w
  PROVE  GlobMatch(Containing(<<v>>), <<v, w>>)
  <1> DEFINE name == <<v, w>>
             part == <<v>>
             parts == Containing(part)
             at == [i \in 0..3 |-> IF i \in {0, 1} THEN 0 ELSE 1]
             S == {v, w}
  <1>1. /\ name \in Seq(S) /\ Len(name) = 2 /\ part \in Seq(S) /\ Len(part) = 1
        /\ part # <<>> /\ name[1] = part[1]
    OBVIOUS
  <1>2. /\ Len(parts) = 3 /\ parts[1] = <<>> /\ parts[2] = part /\ parts[3] = <<>>
        /\ Last(parts) = <<>>
    BY DEF Containing, Last
  <1>3. at \in [0..3 -> 0..2] /\ at[0] = 0 /\ at[1] = 0 /\ at[2] = 1 /\ at[3] = 1
    OBVIOUS
  <1> HIDE DEF name, part, parts, at, S
  <1>4. 0 \in Occurrences(part, name, 0)
    BY <1>1, OccursAtStart
  <1>5. \A p \in Occurrences(part, name, 0) : 0 <= p
    BY <1>1, OccursBehind
  <1>6. at[2] - Len(part) = 0 /\ 1..Len(parts) = {1, 2, 3} /\ 1 - 1 = 0 /\ 2 - 1 = 1
        /\ 3 - 1 = 2
    BY <1>1, <1>2, <1>3
  <1> QED
    BY <1>1, <1>2, <1>3, <1>4, <1>5, <1>6 DEF GlobMatch, name, part, parts

\* No deny list an operator adds lets them through.
LEMMA AlwaysDenied ==
  ASSUME NEW extra
  PROVE  /\ ~ShouldForwardRequest(Handshake, extra)
         /\ ~ShouldForwardResponse(ContentType, extra)
         /\ ~ShouldForwardResponse(CdnId, extra)
         /\ ~ShouldForwardResponse(TraceParent, extra)
  <1>1. GlobMatch(Prefix(<<"sec-websocket">>), Handshake)
    BY PrefixMatches DEF Handshake
  <1>2. GlobMatch(Exact(ContentType), ContentType)
    BY ExactMatches DEF ContentType
  <1>3. GlobMatch(Prefix(<<"cf">>), CdnId)
    BY PrefixMatches DEF CdnId
  <1>4. GlobMatch(Containing(<<"trace">>), TraceParent)
    BY ContainingMatches DEF TraceParent
  <1>5. /\ Prefix(<<"sec-websocket">>) \in DefaultRequestDeny \cup extra
        /\ Exact(ContentType) \in DefaultResponseDeny \cup extra
        /\ Prefix(<<"cf">>) \in DefaultResponseDeny \cup extra
        /\ Containing(<<"trace">>) \in DefaultResponseDeny \cup extra
    BY DEF DefaultRequestDeny, DefaultResponseDeny
  <1> QED
    BY <1>1, <1>2, <1>3, <1>4, <1>5
       DEF ShouldForwardRequest, ShouldForwardResponse, Denied
\* What no step behind the credential changes.
Keeps(h, g) ==
  /\ g \in HeaderMaps
  /\ g[Handshake] = h[Handshake] /\ g[Authorization] = h[Authorization]
  /\ g[Title] = h[Title]
  /\ \A n \in RequestNames : g[n] = "client" => h[n] = "client"

LEMMA NamesAreNames ==
  {Authorization, ContentType, Accept, TraceParent, Title, SessionId, Account,
   Beta, Version, Opencode, Handshake} \subseteq RequestNames
  BY DEF RequestNames

LEMMA NoHeadersFacts ==
  /\ NoHeaders \in HeaderMaps /\ NoHeaders[Handshake] = Absent
  /\ CodecHeaders \in HeaderMaps /\ CodecHeaders[Handshake] = Absent
  /\ \A n \in RequestNames : NoHeaders[n] # "client" /\ CodecHeaders[n] # "client"
  <1>1. NoHeaders \in HeaderMaps /\ \A n \in RequestNames : NoHeaders[n] = Absent
    BY DEF NoHeaders, HeaderMaps, Owners
  <1> DEFINE v == IF req.target.suite = "messages" THEN "codec" ELSE Absent
  <1>2. v \in Owners
    BY DEF Owners
  <1>3. CodecHeaders = [NoHeaders EXCEPT ![ContentType] = "codec", ![Version] = v]
    BY DEF CodecHeaders
  <1> HIDE DEF v
  <1>4. CodecHeaders \in HeaderMaps
    BY <1>1, <1>2, <1>3 DEF HeaderMaps, Owners
  <1>5. CodecHeaders[Handshake] = Absent
    <2> HIDE DEF NoHeaders, Handshake, ContentType, Version
    <2> QED BY <1>1, <1>3, NameFacts, NamesAreNames DEF HeaderMaps
  <1>6. \A n \in RequestNames : NoHeaders[n] # "client" /\ CodecHeaders[n] # "client"
    <2>1. v # "client" /\ Absent # "client"
      BY DEF v, Absent
    <2> HIDE DEF NoHeaders, ContentType, Version, Absent, RequestNames
    <2> QED BY <1>1, <1>3, <2>1 DEF HeaderMaps
  <1> QED
    BY <1>1, <1>4, <1>5, <1>6, NamesAreNames

LEMMA MergeFacts ==
  ASSUME NEW up \in HeaderMaps, NEW client, NEW extra
  PROVE  /\ MergeClientHeaders(client, up, extra) \in HeaderMaps
         /\ MergeClientHeaders(client, up, extra)[Handshake] = up[Handshake]
         /\ Undenied(up, extra) => Undenied(MergeClientHeaders(client, up, extra), extra)
  <1> DEFINE m == MergeClientHeaders(client, up, extra)
  <1>1. \A n \in RequestNames : m[n] = "client" \/ m[n] = up[n]
    BY DEF MergeClientHeaders
  <1>2. m = [n \in RequestNames |-> m[n]]
    BY DEF MergeClientHeaders
  <1>3. m[Handshake] = up[Handshake]
    BY AlwaysDenied, NamesAreNames DEF MergeClientHeaders
  <1> HIDE DEF m
  <1>4. \A n \in RequestNames : m[n] \in Owners
    BY <1>1 DEF HeaderMaps, Owners
  <1>5. m \in HeaderMaps
    BY <1>2, <1>4 DEF HeaderMaps
  <1>6. \A n \in RequestNames : m[n] = "client" => up[n] = "client" \/ ~Denied(extra, n)
    <2>1. \A n \in RequestNames : ShouldForwardRequest(n, extra) => ~Denied(extra, n)
      BY DEF ShouldForwardRequest, Denied
    <2> QED BY <2>1 DEF m, MergeClientHeaders
  <1> QED
    BY <1>3, <1>5, <1>6 DEF m, Undenied

LEMMA SetOther ==
  ASSUME NEW h \in HeaderMaps, NEW n, NEW w \in Owners, w = "client" => h[n] = "client",
         n \notin {Handshake, Authorization, Title}
  PROVE  Keeps(h, [h EXCEPT ![n] = w])
  <1>1. [h EXCEPT ![n] = w] \in HeaderMaps
    BY DEF HeaderMaps
  <1>2. \A m \in RequestNames : m # n => [h EXCEPT ![n] = w][m] = h[m]
    BY DEF HeaderMaps
  <1>3. n \in RequestNames => [h EXCEPT ![n] = w][n] = w
    BY DEF HeaderMaps
  <1> QED
    BY <1>1, <1>2, <1>3, NamesAreNames DEF Keeps

LEMMA KeepsChain ==
  ASSUME NEW f, NEW g, NEW h, Keeps(f, g), Keeps(g, h)
  PROVE  Keeps(f, h)
  BY DEF Keeps

LEMMA CodexHeaderFacts ==
  ASSUME NEW h \in HeaderMaps, NEW websocket, NEW session
  PROVE  Keeps(h, ApplyCodexHeaders(h, websocket, session, TRUE))
  <1> DEFINE accepted == IF websocket THEN h ELSE [h EXCEPT ![Accept] = "profile"]
             keyed == IF session THEN [accepted EXCEPT ![SessionId] = "profile"] ELSE accepted
             w == IF keyed[Account] = Absent THEN "profile" ELSE keyed[Account]
  <1>0. Keeps(h, h) /\ "profile" \in Owners
    BY DEF Keeps, Owners
  <1>1. Keeps(h, accepted)
    <2>1. Keeps(h, [h EXCEPT ![Accept] = "profile"])
      BY <1>0, NameFacts, SetOther
    <2> QED BY <1>0, <2>1
  <1> HIDE DEF accepted
  <1>2. accepted \in HeaderMaps
    BY <1>1 DEF Keeps
  <1>3. Keeps(h, keyed)
    <2>1. Keeps(accepted, [accepted EXCEPT ![SessionId] = "profile"])
      BY <1>0, <1>2, NameFacts, SetOther
    <2> QED BY <1>1, <2>1, KeepsChain
  <1> HIDE DEF keyed
  <1>4. keyed \in HeaderMaps
    BY <1>3 DEF Keeps
  <1>5. w \in Owners /\ (w = "client" => keyed[Account] = "client")
    BY <1>0, <1>4, NamesAreNames DEF HeaderMaps
  <1>6. ApplyCodexHeaders(h, websocket, session, TRUE) = [keyed EXCEPT ![Account] = w]
    BY DEF ApplyCodexHeaders, IfMissing, keyed, accepted
  <1> HIDE DEF w
  <1>7. Keeps(keyed, [keyed EXCEPT ![Account] = w])
    BY <1>4, <1>5, NameFacts, SetOther
  <1> QED
    BY <1>3, <1>6, <1>7, KeepsChain

LEMMA AnthropicHeaderFacts ==
  ASSUME NEW h \in HeaderMaps
  PROVE  Keeps(h, ApplyAnthropicHeaders(h))
  <1> DEFINE w == IF h[Beta] = "client" THEN "merged" ELSE "profile"
             a == [h EXCEPT ![Beta] = w]
             b == [a EXCEPT ![Version] = "profile"]
             c == [b EXCEPT ![SessionId] = "profile"]
             d == [c EXCEPT ![Accept] = "profile"]
  <1>1. w \in Owners /\ "profile" \in Owners /\ w # "client"
    BY DEF Owners
  <1>2. ApplyAnthropicHeaders(h) = d
    BY DEF ApplyAnthropicHeaders
  <1> HIDE DEF w
  <1>3. Keeps(h, a)
    BY <1>1, NameFacts, SetOther
  <1> HIDE DEF a
  <1>4. Keeps(a, b)
    <2>1. a \in HeaderMaps
      BY <1>3 DEF Keeps
    <2> QED BY <1>1, <2>1, NameFacts, SetOther
  <1> HIDE DEF b
  <1>5. Keeps(b, c)
    <2>1. b \in HeaderMaps
      BY <1>4 DEF Keeps
    <2> QED BY <1>1, <2>1, NameFacts, SetOther
  <1> HIDE DEF c
  <1>6. Keeps(c, d)
    <2>1. c \in HeaderMaps
      BY <1>5 DEF Keeps
    <2> QED BY <1>1, <2>1, NameFacts, SetOther
  <1> HIDE DEF d
  <1> QED
    BY <1>2, <1>3, <1>4, <1>5, <1>6, KeepsChain

LEMMA AuthorizedFacts ==
  ASSUME NEW h \in HeaderMaps
  PROVE  /\ Authorized(h) \in HeaderMaps /\ Authorized(h)[Authorization] = "provider"
         /\ Authorized(h)[Handshake] = h[Handshake]
         /\ \A n \in RequestNames : Authorized(h)[n] = "client" => h[n] = "client"
  <1> DEFINE w == IF req.target.suite = "messages" THEN "provider" ELSE h[Version]
             a == [h EXCEPT ![Authorization] = "provider"]
             b == [a EXCEPT ![Version] = w]
             c == [b EXCEPT ![Opencode] = "provider"]
  <1>1. w \in Owners /\ "provider" \in Owners /\ (w = "client" => h[Version] = "client")
    BY NamesAreNames DEF Owners, HeaderMaps
  <1>2. /\ a \in HeaderMaps /\ a[Authorization] = "provider" /\ a[Handshake] = h[Handshake]
        /\ \A n \in RequestNames : a[n] = "client" => h[n] = "client"
    BY <1>1, NameFacts, NamesAreNames DEF HeaderMaps
  <1>3. a[Version] = h[Version]
    BY NameFacts, NamesAreNames DEF HeaderMaps
  <1>4. Authorized(h) = b \/ Authorized(h) = c
    BY <1>3 DEF Authorized, ApplyProviderAuth
  <1> HIDE DEF w, a
  <1>5. Keeps(a, b)
    BY <1>1, <1>2, <1>3, NameFacts, SetOther
  <1> HIDE DEF b
  <1>6. Keeps(b, c)
    <2>1. b \in HeaderMaps
      BY <1>5 DEF Keeps
    <2> QED BY <1>1, <2>1, NameFacts, SetOther
  <1> HIDE DEF c
  <1> QED
    BY <1>2, <1>4, <1>5, <1>6 DEF Keeps

LEMMA ProfileFacts ==
  ASSUME NEW h \in HeaderMaps
  PROVE  Keeps(h, ProfileHeaders(h))
  <1> DEFINE c == IF Codex THEN ApplyCodexHeaders(h, Websocket, req.session # None, TRUE)
                  ELSE h
  <1>1. Keeps(h, c)
    <2>1. Keeps(h, h)
      BY DEF Keeps
    <2>2. Keeps(h, ApplyCodexHeaders(h, Websocket, req.session # None, TRUE))
      BY CodexHeaderFacts
    <2> QED BY <2>1, <2>2
  <1>2. ProfileHeaders(h) = IF AnthropicOAuth THEN ApplyAnthropicHeaders(c) ELSE c
    BY DEF ProfileHeaders
  <1> HIDE DEF c
  <1>3. Keeps(c, ApplyAnthropicHeaders(c))
    BY <1>1, AnthropicHeaderFacts DEF Keeps
  <1> QED
    BY <1>1, <1>2, <1>3, KeepsChain

LEMMA IdentifiedFacts ==
  ASSUME NEW h \in HeaderMaps
  PROVE  /\ Identified(h) \in HeaderMaps
         /\ Identified(h)[Authorization] = h[Authorization]
         /\ Identified(h)[Handshake] = h[Handshake]
         /\ req.target.profile # None => Identified(h)[Title] = Absent
         /\ Undenied(h, req.denyRequest) => Undenied(Identified(h), req.denyRequest)
  <1> DEFINE w == IF ~ShouldForwardRequest(Title, req.denyRequest) THEN Absent
                  ELSE IF req.target.profile # None THEN Absent
                  ELSE IF Title \in req.client THEN "client"
                  ELSE IF h[Title] = Absent THEN "gateway" ELSE h[Title]
  <1>1. Identified(h) = [h EXCEPT ![Title] = w]
    BY DEF Identified, ApplyIdentity
  <1>2. w \in Owners /\ (req.target.profile # None => w = Absent)
    BY NamesAreNames DEF Owners, HeaderMaps
  <1>4. w = "client" => ~Denied(req.denyRequest, Title)
    <2>1. ShouldForwardRequest(Title, req.denyRequest) => ~Denied(req.denyRequest, Title)
      BY DEF ShouldForwardRequest, Denied
    <2> QED BY <2>1 DEF Absent
  <1> HIDE DEF w
  <1>3. /\ [h EXCEPT ![Title] = w] \in HeaderMaps
        /\ [h EXCEPT ![Title] = w][Title] = w
        /\ \A n \in RequestNames : n # Title => [h EXCEPT ![Title] = w][n] = h[n]
    BY <1>2, NamesAreNames DEF HeaderMaps
  <1> QED
    BY <1>1, <1>2, <1>3, <1>4, NameFacts, NamesAreNames DEF Undenied

\* What an exchange's headers are made of.
LEMMA SentFacts ==
  ASSUME NEW h \in HeaderMaps
  PROVE  LET s == InjectTrace(ApplyWebsocketHeaders(h))
             t == InjectTrace([h EXCEPT ![ContentType] = "gateway"])
         IN  /\ Keeps(h, s) /\ s[TraceParent] = "gateway" /\ s[ContentType] = Absent
             /\ Keeps(h, t) /\ t[TraceParent] = "gateway" /\ t[ContentType] = "gateway"
  <1> DEFINE a == [h EXCEPT ![ContentType] = Absent]
             b == [a EXCEPT ![Beta] = "gateway"]
             s == [b EXCEPT ![TraceParent] = "gateway"]
             c == [h EXCEPT ![ContentType] = "gateway"]
             t == [c EXCEPT ![TraceParent] = "gateway"]
  <1>1. Absent \in Owners /\ "gateway" \in Owners
    BY DEF Owners
  <1>2. Keeps(h, a) /\ a[ContentType] = Absent
    <2>1. Keeps(h, a)
      BY <1>1, NameFacts, SetOther DEF Absent
    <2>2. a[ContentType] = Absent
      BY NamesAreNames DEF HeaderMaps
    <2> QED BY <2>1, <2>2
  <1>3. InjectTrace(ApplyWebsocketHeaders(h)) = s
    BY DEF InjectTrace, ApplyWebsocketHeaders
  <1>4. Keeps(h, c) /\ c[ContentType] = "gateway"
    BY <1>1, NameFacts, NamesAreNames, SetOther DEF HeaderMaps
  <1> HIDE DEF a
  <1>5. Keeps(a, b) /\ b[ContentType] = Absent
    BY <1>1, <1>2, NameFacts, NamesAreNames, SetOther DEF HeaderMaps, Keeps
  <1> HIDE DEF b
  <1>6. Keeps(b, s) /\ s[ContentType] = Absent /\ s[TraceParent] = "gateway"
    BY <1>1, <1>5, NameFacts, NamesAreNames, SetOther DEF HeaderMaps, Keeps
  <1>7. InjectTrace(c) = t
    BY DEF InjectTrace
  <1> HIDE DEF c
  <1>8. Keeps(c, t) /\ t[ContentType] = "gateway" /\ t[TraceParent] = "gateway"
    BY <1>1, <1>4, NameFacts, NamesAreNames, SetOther DEF HeaderMaps, Keeps
  <1> HIDE DEF s, t
  <1> QED
    BY <1>2, <1>3, <1>4, <1>5, <1>6, <1>7, <1>8, KeepsChain DEF c

\* Nothing of the provider's infrastructure is in an answer.
Clean(headers, deny) ==
  \A n \in DOMAIN headers :
    headers[n] = "provider" =>
      /\ n # ContentType /\ Head(n) # "cf" /\ Last(n) # "request-id"
      /\ \A w \in DOMAIN n : n[w] # "trace"
      /\ n = RetryAfter \/ ~Denied(deny, n)

LEMMA ForwardFacts ==
  ASSUME NEW names \in SUBSET ResponseNames, NEW extra, NEW kept \in SUBSET {RetryAfter}
  PROVE  Clean(KeepHeaders(kept, ForwardResponseHeaders(names, extra)), extra)
  <1> DEFINE f == ForwardResponseHeaders(names, extra)
             g == KeepHeaders(kept, f)
  <1> SUFFICES ASSUME NEW n \in DOMAIN g, g[n] = "provider"
               PROVE  /\ n # ContentType /\ Head(n) # "cf" /\ Last(n) # "request-id"
                      /\ \A w \in DOMAIN n : n[w] # "trace"
                      /\ n = RetryAfter \/ ~Denied(extra, n)
    BY DEF Clean
  <1>0. n = RetryAfter \/ (n \in DOMAIN f /\ f[n] = "provider")
    <2> HIDE DEF f
    <2> QED BY DEF KeepHeaders
  <1>1. n = RetryAfter \/ (n # RequestId /\ n \in names /\ ShouldForwardResponse(n, extra))
    BY <1>0 DEF ForwardResponseHeaders
  <1>2. n \in {Custom, RetryAfter, Limits}
    <2>1. n = RetryAfter \/ n \notin {ContentType, CdnId, TraceParent}
      BY <1>1, AlwaysDenied
    <2> QED BY <1>1, <2>1 DEF ResponseNames
  <1>3. n = RetryAfter \/ ~Denied(extra, n)
    BY <1>1 DEF ShouldForwardResponse, Denied
  <1>4. \E a, b : /\ n = <<a, b>> /\ a \in {"x", "retry"}
                  /\ b \in {"custom", "after", "limits"}
    BY <1>2 DEF Custom, RetryAfter, Limits
  <1>5. PICK a, b : /\ n = <<a, b>> /\ a \in {"x", "retry"}
                    /\ b \in {"custom", "after", "limits"}
    BY <1>4
  <1>6. Head(n) = a /\ Last(n) = b /\ Len(n) = 2 /\ n[1] = a /\ n[2] = b
    BY <1>5 DEF Last
  <1>7. DOMAIN n = 1..2
    BY <1>5
  <1>8. Head(ContentType) = "content"
    BY DEF ContentType
  <1> QED
    BY <1>3, <1>5, <1>6, <1>7, <1>8
-----------------------------------------------------------------------------
(* The steps of an attempt, with what the executors have in common.          *)

Ready(b, raw, headers, recorded) ==
  /\ b \in Bodies /\ Fits(b) /\ raw \in BOOLEAN /\ (raw => b = req.body)
  /\ headers \in HeaderMaps /\ headers[Handshake] = Absent
  /\ \A n \in RequestNames : headers[n] # "client"
  /\ recorded \in Bodies \cup {None} /\ (recorded = b \/ req.exec = "edits")

Rejected ==
  /\ pc = "build" /\ Finish(BadRequest)
  /\ UNCHANGED <<req, body, verbatim, hdrs, record, wire, answered, captures,
                 answer, socketVars>>

Begun ==
  /\ pc = "build"
  /\ \E b, raw, headers, recorded :
       Ready(b, raw, headers, recorded) /\ Begin(b, raw, headers, recorded)

LEMMA PrepareCases ==
  ASSUME req \in Requests, Prepare
  PROVE  Rejected \/ Begun
  <1>0. /\ NoHeaders \in HeaderMaps /\ NoHeaders[Handshake] = Absent
        /\ CodecHeaders \in HeaderMaps /\ CodecHeaders[Handshake] = Absent
        /\ \A n \in RequestNames : NoHeaders[n] # "client" /\ CodecHeaders[n] # "client"
    BY NoHeadersFacts
  <1>1. CASE PrepareJson
    <2>1. CASE JsonRefuses
      BY <1>1, <2>1 DEF PrepareJson, Rejected
    <2>2. CASE ~JsonRefuses
      <3> DEFINE raw == PassThrough /\ ~JsonBody.changed
                 b == JsonBody.body
                 recorded == IF raw THEN req.body ELSE b
      <3>1. pc = "build" /\ Begin(b, raw, CodecHeaders, recorded)
        BY <1>1, <2>2 DEF PrepareJson
      <3>2. b \in Bodies /\ Fits(b) /\ (raw => b = req.body)
        BY <2>2, JsonFacts
      <3>3. raw \in BOOLEAN /\ recorded = b
        BY <3>2
      <3> HIDE DEF raw, b, recorded
      <3>4. Ready(b, raw, CodecHeaders, recorded)
        BY <1>0, <3>2, <3>3 DEF Ready
      <3> QED BY <3>1, <3>4 DEF Begun
    <2> QED BY <2>1, <2>2
  <1>2. CASE EmbeddingsPrepare
    <2> DEFINE b == OverrideModel(Encoded).body
    <2>1. pc = "build" /\ Begin(b, FALSE, CodecHeaders, b) /\ req.exec = "embeddings"
      BY <1>2 DEF EmbeddingsPrepare
    <2>2. b \in Bodies /\ b.model # "client"
      BY EncodedFacts, OverrideFacts
    <2> HIDE DEF b
    <2>3. Fits(b)
      BY <2>1, <2>2 DEF Fits, ChatLike
    <2>4. Ready(b, FALSE, CodecHeaders, b)
      BY <1>0, <2>2, <2>3 DEF Ready
    <2> QED BY <2>1, <2>4 DEF Begun
  <1>3. CASE ImagesPrepare
    <2> DEFINE keyed == InjectCacheKey(FirstBody, req.caller)
               named == OverrideModel(keyed.body)
               raw == PassThrough /\ ~named.changed /\ ~keyed.changed
               b == named.body
               recorded == IF raw THEN req.body ELSE b
    <2>1. pc = "build" /\ Begin(b, raw, CodecHeaders, recorded) /\ req.exec = "images"
      BY <1>3 DEF ImagesPrepare
    <2>2. FirstBody \in Bodies /\ (PassThrough => FirstBody = req.body)
      BY FirstFacts
    <2>3. keyed.body \in Bodies /\ (~keyed.changed => keyed.body = FirstBody)
      BY <2>2, CacheKeyFacts
    <2> HIDE DEF keyed
    <2>4. b \in Bodies /\ b.model # "client" /\ (~named.changed => b = keyed.body)
      BY <2>3, OverrideFacts
    <2> HIDE DEF named, b
    <2>5. raw \in BOOLEAN /\ (raw => b = req.body) /\ recorded = b
      BY <2>2, <2>3, <2>4
    <2> HIDE DEF raw, recorded
    <2>6. Fits(b)
      BY <2>1, <2>4 DEF Fits, ChatLike
    <2>7. Ready(b, raw, CodecHeaders, recorded)
      BY <1>0, <2>4, <2>5, <2>6 DEF Ready
    <2> QED BY <2>1, <2>7 DEF Begun
  <1>4. CASE EditsPrepare
    <2>1. pc = "build" /\ Begin(req.body, TRUE, NoHeaders, None) /\ req.exec = "edits"
      BY <1>4 DEF EditsPrepare
    <2>2. req.body \in Bodies
      BY RequestFacts
    <2>3. Fits(req.body)
      BY <2>1 DEF Fits, ChatLike
    <2>4. Ready(req.body, TRUE, NoHeaders, None)
      BY <1>0, <2>1, <2>2, <2>3 DEF Ready
    <2> QED BY <2>1, <2>4 DEF Begun
  <1> QED
    BY <1>1, <1>2, <1>3, <1>4
       DEF Prepare, ChatPrepare, MessagesPrepare, ResponsesPrepare, GeminiPrepare

Credited ==
  \E h \in HeaderMaps :
    /\ AuthorizeWith(h, IF Upgrades THEN "connect" ELSE "send")
    /\ h[Handshake] = hdrs[Handshake] /\ h[Authorization] = "provider"
    /\ req.target.profile # None => h[Title] = Absent
    /\ Undenied(hdrs, req.denyRequest) => Undenied(h, req.denyRequest)

LEMMA AuthorizeCases ==
  ASSUME hdrs \in HeaderMaps, Authorize
  PROVE  Credited
  <1> DEFINE a == Authorized(hdrs)
             p == ProfileHeaders(a)
  <1>1. /\ a \in HeaderMaps /\ a[Authorization] = "provider" /\ a[Handshake] = hdrs[Handshake]
        /\ Undenied(hdrs, req.denyRequest) => Undenied(a, req.denyRequest)
    BY AuthorizedFacts DEF Undenied
  <1>2. CASE AuthorizeJson /\ req.exec \in ChatLike
    <2>1. AuthorizeWith(Identified(p), IF Upgrades THEN "connect" ELSE "send")
      BY <1>2 DEF AuthorizeJson, Upgrades
    <2> HIDE DEF a
    <2>2. Keeps(a, p)
      BY <1>1, ProfileFacts
    <2> HIDE DEF p
    <2>3. /\ p \in HeaderMaps /\ p[Authorization] = "provider"
          /\ p[Handshake] = hdrs[Handshake]
          /\ Undenied(hdrs, req.denyRequest) => Undenied(p, req.denyRequest)
      BY <1>1, <2>2 DEF Keeps, Undenied
    <2>4. /\ Identified(p) \in HeaderMaps /\ Identified(p)[Authorization] = "provider"
          /\ Identified(p)[Handshake] = hdrs[Handshake]
          /\ req.target.profile # None => Identified(p)[Title] = Absent
          /\ Undenied(hdrs, req.denyRequest) => Undenied(Identified(p), req.denyRequest)
      BY <2>3, IdentifiedFacts
    <2> QED BY <2>1, <2>4 DEF Credited
  <1>3. CASE SimpleAuthorize
    <2>1. AuthorizeWith(Identified(a), IF Upgrades THEN "connect" ELSE "send")
      BY <1>3 DEF SimpleAuthorize, Upgrades, ChatLike
    <2> HIDE DEF a
    <2>2. /\ Identified(a) \in HeaderMaps /\ Identified(a)[Authorization] = "provider"
          /\ Identified(a)[Handshake] = hdrs[Handshake]
          /\ req.target.profile # None => Identified(a)[Title] = Absent
          /\ Undenied(hdrs, req.denyRequest) => Undenied(Identified(a), req.denyRequest)
      BY <1>1, IdentifiedFacts
    <2> QED BY <2>1, <2>2 DEF Credited
  <1> QED
    BY <1>2, <1>3 DEF Authorize, ChatAuthorize, MessagesAuthorize, ResponsesAuthorize,
                      GeminiAuthorize, ChatLike

\* What is read as an answer is no error, and every executor but the one for
\* embeddings keeps Retry-After.
Reads ==
  \E parsed, retries, limits :
    /\ ReadBody(parsed, retries, limits)
    /\ retries <=> req.exec # "embeddings"
    /\ parsed \in {"json", "mixed"} => answer.body \in {"json", "mixed", "completed"}

LEMMA ReadCases ==
  ASSUME Read
  PROVE  Reads
  <1>1. CASE ReadBody(Parsed(answer), TRUE, TRUE) /\ req.exec # "embeddings"
    <2>1. Parsed(answer) \in {"json", "mixed"} => answer.body \in {"json", "mixed", "completed"}
      BY DEF Parsed
    <2> QED BY <1>1, <2>1 DEF Reads
  <1>2. CASE ReadBody(ParsedImages(answer), TRUE, TRUE) /\ req.exec # "embeddings"
    <2>1. ParsedImages(answer) \in {"json", "mixed"}
            => answer.body \in {"json", "mixed", "completed"}
      BY DEF ParsedImages
    <2> QED BY <1>2, <2>1 DEF Reads
  <1>3. CASE EmbeddingsRead
    <2>1. ParsedEmbeddings(answer) \in {"json", "mixed"}
            => answer.body \in {"json", "mixed", "completed"}
      BY DEF ParsedEmbeddings
    <2> QED BY <1>3, <2>1 DEF Reads, EmbeddingsRead
  <1> QED
    BY <1>1, <1>2, <1>3 DEF Read, ChatRead, MessagesRead, ResponsesRead, GeminiRead,
                            ImagesRead, EditsRead

Refusals == req.exec # "embeddings" /\ \E limits : ReadRefusal(limits)
Delivers == \E kept \in SUBSET {RetryAfter} : Deliver(kept)
SocketSteps == SocketNext /\ UNCHANGED attemptVars

\* Every step, the executors taken together.
Steps ==
  \/ Rejected \/ Begun \/ Credited \/ Connect \/ Send \/ Reads \/ Delivers
  \/ HandshakeExpires \/ TtfbExpires \/ DeadlineExpires \/ HandshakeFails
  \/ UpgradeRequired \/ Open \/ Create \/ Collect \/ OpenStream \/ Refusals \/ Headers
  \/ Breaks \/ SocketSteps

LEMMA NextCases ==
  ASSUME ExecutorTypes, Next
  PROVE  Steps
  <1>0. req \in Requests /\ hdrs \in HeaderMaps
    BY DEF ExecutorTypes
  <1>1. CASE Prepare
    BY <1>0, <1>1, PrepareCases DEF Steps
  <1>2. CASE Authorize
    BY <1>0, <1>2, AuthorizeCases DEF Steps
  <1>3. CASE Exchange
    <2>1. CASE Read
      BY <2>1, ReadCases DEF Steps
    <2>2. CASE Deliveries
      <3>1. Delivers
        BY <2>2 DEF Deliveries, ChatDeliver, MessagesDeliver, ResponsesDeliver,
              GeminiDeliver, ImagesDeliver, EditsDeliver, EmbeddingsDeliver, Delivers
      <3> QED BY <3>1 DEF Steps
    <2> QED BY <1>3, <2>1, <2>2 DEF Exchange, Steps
  <1>4. CASE Upstream
    <2>1. CASE Upgrade
      BY <2>1 DEF Upgrade, ChatUpgrade, MessagesUpgrade, ResponsesUpgrade, GeminiUpgrade,
                  Steps
    <2>2. CASE Refusal
      <3>1. Refusals
        BY <2>2 DEF Refusal, ChatRefusal, MessagesRefusal, ResponsesRefusal, GeminiRefusal,
              ImagesRefusal, EditsRefusal, Refusals
      <3> QED BY <3>1 DEF Steps
    <2> QED BY <1>4, <2>1, <2>2 DEF Upstream, Steps
  <1>5. CASE SocketNext /\ UNCHANGED attemptVars
    BY <1>5 DEF Steps, SocketSteps
  <1> QED
    BY <1>1, <1>2, <1>3, <1>4, <1>5 DEF Next
-----------------------------------------------------------------------------
(* Types.                                                                    *)

LEMMA UpgradedBody ==
  ASSUME ExecutorTypes, BodiesFit, pc = "handshake"
  PROVE  PrepareCodex(body, FALSE).body \in Bodies
  <1>1. Codex /\ req.exec \in ChatLike /\ Fits(body) /\ body \in Bodies
    BY DEF BodiesFit, Upgrades, Websocket, ExecutorTypes
  <1>2. Given(body.input)
    BY <1>1 DEF Fits, CodexFits, CodexReads, Given
  <1> QED
    BY <1>1, <1>2, PrepareCodexFacts

LEMMA AnswersAreTyped ==
  ASSUME NEW a \in Answers
  PROVE  a.status \in Nat /\ a.names \subseteq ResponseNames
  <1> HIDE DEF ResponseNames
  <1> QED BY ExecutorAssumption

LEMMA NoConnectionFacts ==
  NoConnection.status = 502 /\ NoConnection.names = {}
  BY DEF NoConnection, NoAnswer

LEMMA AppendType ==
  ASSUME NEW S, NEW s \in Seq(S), NEW x \in S
  PROVE  /\ Append(s, x) \in Seq(S) /\ Len(s) \in Nat /\ Len(Append(s, x)) = Len(s) + 1
         /\ Append(s, x)[Len(s) + 1] = x /\ \A i \in 1..Len(s) : Append(s, x)[i] = s[i]
         /\ DOMAIN Append(s, x) = 1..(Len(s) + 1) /\ DOMAIN s = 1..Len(s)
         /\ Append(s, x) # <<>>
  BY AppendProperties, LenProperties

Captures == [status : Nat, sent : Bodies \cup {None}]

LEMMA CaptureType ==
  ASSUME record \in Bodies \cup {None}, captures \in Seq(Captures), NEW status \in Nat
  PROVE  /\ Capture(status) \in Seq(Captures)
         /\ Len(captures) \in Nat /\ Len(Capture(status)) = Len(captures) + 1
         /\ Capture(status)[Len(captures) + 1].status = status
         /\ Capture(status)[Len(captures) + 1].sent = record
         /\ \A i \in 1..Len(captures) : Capture(status)[i] = captures[i]
         /\ DOMAIN Capture(status) = 1..(Len(captures) + 1)
         /\ DOMAIN captures = 1..Len(captures)
  <1> DEFINE c == [status |-> status, sent |-> record]
  <1>1. c \in Captures /\ c.status = status /\ c.sent = record
    <2> HIDE DEF Bodies
    <2> QED BY DEF Captures
  <1> HIDE DEF c, Captures
  <1> QED
    BY <1>1, AppendType DEF Capture, c

LEMMA TypesStep ==
  ASSUME ExecutorTypes, BodiesFit, Steps
  PROVE  ExecutorTypes'
  <1> USE DEF Finish
  <1> DEFINE Rest == /\ req \in Requests /\ pc \in Stages /\ body \in Bodies
                     /\ verbatim \in BOOLEAN /\ hdrs \in HeaderMaps
                     /\ record \in Bodies \cup {None} /\ wire \in Seq(Exchanges)
                     /\ answered \in Seq(Nat) /\ captures \in Seq(Captures)
                     /\ answer.status \in Nat /\ answer.names \subseteq ResponseNames
                     /\ (pc # "done" => result = NoResult)
  <1>0. Rest /\ (Rest' => ExecutorTypes')
    BY DEF ExecutorTypes, Captures
  <1> HIDE DEF Bodies, HeaderMaps, Exchanges, Captures, ResponseNames
  <1>1. CASE Rejected
    BY <1>0, <1>1 DEF Rejected, Stages
  <1>2. CASE Begun
    <2>1. PICK b, raw, headers, recorded :
            Ready(b, raw, headers, recorded) /\ Begin(b, raw, headers, recorded)
      BY <1>2 DEF Begun
    <2>2. hdrs' \in HeaderMaps
      BY <2>1, MergeFacts DEF Ready, Begin
    <2>3. pc # "done"
      BY <1>2 DEF Begun
    <2> QED BY <1>0, <2>1, <2>2, <2>3 DEF Ready, Begin, Stages
  <1>3. CASE Credited
    BY <1>0, <1>3 DEF Credited, AuthorizeWith, Stages
  <1>4. CASE Connect
    <2>1. hdrs \in HeaderMaps /\ body \in Bodies /\ wire \in Seq(Exchanges)
      BY <1>0
    <2> DEFINE s == InjectTrace(ApplyWebsocketHeaders(hdrs))
    <2>2. s \in HeaderMaps
      BY <2>1, SentFacts DEF Keeps
    <2> HIDE DEF s
    <2>3. [by |-> "socket", body |-> body, headers |-> s] \in Exchanges
      BY <2>1, <2>2 DEF Exchanges
    <2>4. wire' \in Seq(Exchanges)
      BY <1>4, <2>1, <2>3, AppendType DEF Connect, s
    <2> QED BY <1>0, <1>4, <2>4 DEF Connect, Stages
  <1>5. CASE Send
    <2>1. /\ hdrs \in HeaderMaps /\ body \in Bodies /\ wire \in Seq(Exchanges)
          /\ req.body \in Bodies
      BY <1>0, RequestFacts
    <2> DEFINE s == InjectTrace([hdrs EXCEPT ![ContentType] = "gateway"])
               b == IF verbatim THEN req.body ELSE body
    <2>2. s \in HeaderMaps /\ b \in Bodies
      BY <2>1, SentFacts DEF Keeps
    <2>4. wire' = Append(wire, [by |-> "http", body |-> b, headers |-> s])
      BY <1>5 DEF Send
    <2> HIDE DEF s, b
    <2>3. [by |-> "http", body |-> b, headers |-> s] \in Exchanges
      BY <2>2 DEF Exchanges
    <2>5. wire' \in Seq(Exchanges)
      BY <2>1, <2>3, <2>4, AppendType
    <2> QED BY <1>0, <1>5, <2>5 DEF Send, Stages
  <1>6. CASE Reads
    <2>1. /\ captures' \in Seq(Captures) /\ pc = "read"
          /\ (pc' = "done" \/ (pc' = "deliver" /\ result' = result))
          /\ UNCHANGED <<req, body, verbatim, hdrs, record, wire, answered, answer>>
      BY <1>0, <1>6, CaptureType DEF Reads, ReadBody
    <2> QED BY <1>0, <2>1 DEF Stages
  <1>7. CASE Delivers
    <2>1. captures' \in Seq(Captures)
      BY <1>0, <1>7, CaptureType DEF Delivers, Deliver
    <2> QED BY <1>0, <1>7, <2>1 DEF Delivers, Deliver, Stages
  <1>8. CASE HandshakeExpires
    <2>1. captures' \in Seq(Captures) /\ answered' \in Seq(Nat)
      BY <1>0, <1>8, CaptureType DEF HandshakeExpires
    <2> QED BY <1>0, <1>8, <2>1 DEF HandshakeExpires, Stages
  <1>9. CASE TtfbExpires
    BY <1>0, <1>9 DEF TtfbExpires, Stages
  <1>10. CASE DeadlineExpires
    BY <1>0, <1>10 DEF DeadlineExpires, Stages
  <1>11. CASE HandshakeFails
    <2>1. PICK a \in Answers \cup {NoConnection} :
            /\ answer' = a /\ answered' = Append(answered, a.status)
            /\ captures' = Capture(a.status) /\ pc' = "done"
            /\ UNCHANGED <<req, body, verbatim, hdrs, record, wire>>
      BY <1>11 DEF HandshakeFails
    <2>2. a.status \in Nat /\ a.names \subseteq ResponseNames
      BY NoConnectionFacts, AnswersAreTyped
    <2>3. captures' \in Seq(Captures) /\ answered' \in Seq(Nat)
      BY <1>0, <2>1, <2>2, CaptureType, AppendType
    <2> QED BY <1>0, <2>1, <2>2, <2>3 DEF Stages
  <1>12. CASE UpgradeRequired
    <2>1. captures' \in Seq(Captures) /\ answered' \in Seq(Nat)
      BY <1>0, <1>12, CaptureType DEF UpgradeRequired
    <2>2. body' \in Bodies /\ record' \in Bodies
      BY <1>12, UpgradedBody DEF UpgradeRequired
    <2>3. hdrs' \in HeaderMaps
      BY <1>0, <1>12, CodexHeaderFacts DEF UpgradeRequired, Keeps
    <2> QED BY <1>0, <1>12, <2>1, <2>2, <2>3 DEF UpgradeRequired, Stages
  <1>13. CASE Open \/ Create
    <2>1. captures' \in Seq(Captures) /\ answered' \in Seq(Nat)
      <3>1. captures' = captures \/ captures' = Capture(101)
        BY <1>13 DEF Open, Create
      <3>2. answered' = answered \/ answered' = Append(answered, 101)
        BY <1>13 DEF Open, Create
      <3>3. Capture(101) \in Seq(Captures)
        BY <1>0, CaptureType
      <3>4. answered' \in Seq(Nat)
        <4>1. answered \in Seq(Nat)
          BY <1>0
        <4> QED BY <3>2, <4>1, AppendType
      <3> QED BY <1>0, <3>1, <3>3, <3>4
    <2> QED BY <1>0, <1>13, <2>1 DEF Open, Create, Stages
  <1>14. CASE Collect
    <2>1. captures' \in Seq(Captures)
      BY SMTT(30), <1>0, <1>14, CaptureType DEF Collect
    <2>2. answer'.status \in Nat /\ answer'.names \subseteq ResponseNames
      <3> DEFINE a == [NoAnswer EXCEPT !.status = 101, !.body = "json"]
      <3>1. answer' = answer \/ answer' = a
        BY <1>14 DEF Collect
      <3>2. a.status = 101 /\ a.names = {}
        BY DEF NoAnswer
      <3> HIDE DEF a
      <3> QED BY <1>0, <3>1, <3>2
    <2> QED BY <1>0, <1>14, <2>1, <2>2 DEF Collect, Stages
  <1>15. CASE OpenStream
    <2>1. PICK a \in Answers :
            /\ answered' = Append(answered, a.status)
            /\ captures' = captures \/ captures' = Capture(a.status)
            /\ answer' = answer \/ answer' = a
            /\ pc' = "done" \/ (pc' = "refused" /\ result' = result)
      BY <1>15 DEF OpenStream
    <2>2. pc # "done" /\ UNCHANGED <<req, body, verbatim, hdrs, record, wire>>
      BY <1>15 DEF OpenStream
    <2>3. a.status \in Nat /\ a.names \subseteq ResponseNames
      BY AnswersAreTyped
    <2>4. captures' \in Seq(Captures) /\ answered' \in Seq(Nat)
      BY <1>0, <2>1, <2>3, CaptureType, AppendType
    <2> QED BY <1>0, <2>1, <2>2, <2>3, <2>4 DEF Stages
  <1>19. CASE Refusals
    <2>1. captures' \in Seq(Captures)
      BY <1>0, <1>19, CaptureType DEF Refusals, ReadRefusal
    <2> QED BY <1>0, <1>19, <2>1 DEF Refusals, ReadRefusal, Stages
  <1>16. CASE Headers
    <2>1. /\ answered' \in Seq(Nat) /\ answer'.status \in Nat
          /\ answer'.names \subseteq ResponseNames
      BY <1>0, <1>16, AnswersAreTyped DEF Headers
    <2> QED BY <1>0, <1>16, <2>1 DEF Headers, Stages
  <1>17. CASE Breaks
    BY <1>0, <1>17 DEF Breaks, Stages
  <1>18. CASE SocketSteps
    BY <1>0, <1>18 DEF SocketSteps, attemptVars
  <1> QED
    BY <1>1, <1>2, <1>3, <1>4, <1>5, <1>6, <1>7, <1>8, <1>9, <1>10, <1>11, <1>12, <1>13,
       <1>14, <1>15, <1>16, <1>17, <1>18, <1>19 DEF Steps
-----------------------------------------------------------------------------
(* Bodies on the wire.                                                       *)

LEMMA TargetKeeps ==
  ASSUME req' = req
  PROVE  /\ Codex' <=> Codex
         /\ Websocket' <=> Websocket
         /\ Upgrades' <=> Upgrades
  BY DEF Codex, Websocket, Upgrades

LEMMA FitsKeep ==
  ASSUME req' = req, NEW b, body' = b, Fits(b)
  PROVE  Fits(body)'
  BY TargetKeeps DEF Fits, CodexFits, CodexReads, CallsAsAllowed, FitForHttp,
     DeepSeekUnderstands

LEMMA AcceptsKeep ==
  ASSUME req' = req, wire' = wire, verbatim' = verbatim \/ wire = <<>>,
         UpstreamsGetWhatTheyAccept
  PROVE  UpstreamsGetWhatTheyAccept'
  <1> SUFFICES ASSUME NEW k \in DOMAIN wire, Accepted(k)
               PROVE  Accepted(k)'
    BY DEF UpstreamsGetWhatTheyAccept
  <1>1. verbatim' = verbatim
    OBVIOUS
  <1> QED
    BY <1>1, TargetKeeps DEF Accepted, CodexAccepts, CodexReads, CallsAsAllowed, FitForHttp,
         AfterUpgrade, DeepSeekUnderstands

LEMMA AcceptsFirst ==
  ASSUME req' = req, wire = <<>>, NEW x \in Exchanges, wire' = Append(wire, x),
         Fits(x.body), x.by = "http" => ~Upgrades
  PROVE  UpstreamsGetWhatTheyAccept'
  <1>1. DOMAIN wire' = 1..1 /\ wire'[1] = x
    BY SingleFacts
  <1> SUFFICES Accepted(1)'
    BY <1>1 DEF UpstreamsGetWhatTheyAccept
  <1>2. Codex /\ req.exec \in ChatLike => CodexFits(x.body, x.by = "http")
    BY DEF Fits, CodexFits, Upgrades
  <1> QED
    BY <1>1, <1>2, TargetKeeps DEF Fits, CodexFits, Accepted, CodexAccepts, CodexReads,
         CallsAsAllowed, FitForHttp, DeepSeekUnderstands

\* The exchange after a refused upgrade.
LEMMA AcceptsLater ==
  ASSUME req' = req, verbatim' = verbatim, wire \in Seq(Exchanges), wire # <<>>,
         NEW x \in Exchanges, wire' = Append(wire, x), UpstreamsGetWhatTheyAccept,
         Upgrades, CodexReads(x.body), FitForHttp(x.body) \/ verbatim,
         x.body.model # "client"
  PROVE  UpstreamsGetWhatTheyAccept'
  <1> HIDE DEF Exchanges
  <1>1. /\ DOMAIN wire' = 1..(Len(wire) + 1) /\ DOMAIN wire = 1..Len(wire)
        /\ Len(wire) \in Nat \ {0} /\ wire'[Len(wire) + 1] = x
        /\ \A k \in 1..Len(wire) : wire'[k] = wire[k]
    BY AppendType
  <1> SUFFICES ASSUME NEW k \in DOMAIN wire' PROVE Accepted(k)'
    BY DEF UpstreamsGetWhatTheyAccept
  <1>2. CASE k \in 1..Len(wire)
    <2>1. Accepted(k) /\ wire'[k] = wire[k]
      BY <1>1, <1>2 DEF UpstreamsGetWhatTheyAccept
    <2> QED
      BY <2>1, TargetKeeps DEF Accepted, CodexAccepts, CodexReads, CallsAsAllowed, FitForHttp,
           AfterUpgrade, DeepSeekUnderstands
  <1>3. CASE k = Len(wire) + 1
    <2>1. wire'[k] = x /\ k > 1
      BY <1>1, <1>3
    <2>2. Codex' /\ (FitForHttp(x.body) \/ verbatim')
      BY TargetKeeps DEF Upgrades, Websocket
    <2> QED
      BY <2>1, <2>2 DEF Accepted, CodexAccepts, CodexReads, FitForHttp, AfterUpgrade
  <1> QED
    BY <1>1, <1>2, <1>3

\* A body that Codex reads is not changed a second time where it matters.
LEMMA ShapedIsKept ==
  ASSUME NEW i \in Items, i.role # "system", i.id # "long", ~i.breakpoint
  PROVE  CodexItem(i) = i
  <1>1. i.breakpoint = FALSE
    BY DEF Items
  <1>2. ShortenId(i) = i
    BY DEF ShortenId, Items
  <1> QED
    BY <1>1, <1>2 DEF CodexItem, Items

LEMMA PreparedAgain ==
  ASSUME NEW b \in Bodies, CodexReads(b)
  PROVE  LET p == PrepareCodex(b, FALSE).body
         IN  CodexReads(p) /\ FitForHttp(p) /\ p.model = b.model
  <1> DEFINE p == PrepareCodex(b, FALSE).body
  <1> SUFFICES CodexReads(p) /\ FitForHttp(p) /\ p.model = b.model
    OBVIOUS
  <1>1. b.input \in Seq(Items) /\ Given(b.input)
    BY DEF Bodies, CodexReads, Given
  <1>2. \A k \in DOMAIN b.input :
          LET i == b.input[k]
          IN  /\ i \in Items /\ i.type # "string" /\ i.role # "system" /\ i.id # "long"
              /\ ~i.breakpoint
    BY <1>1, ElementOfSeq, LenProperties DEF CodexReads
  <1>3. b.input # StringInput
    BY <1>2, StringInputFacts
  <1>4. CodexInput(b.input) = b.input
    <2>1. \A k \in DOMAIN b.input : CodexItem(b.input[k]) = b.input[k]
      BY <1>2, ShapedIsKept
    <2>2. b.input = [k \in DOMAIN b.input |-> b.input[k]]
      BY <1>1
    <2>3. CodexInput(b.input) = [k \in DOMAIN b.input |-> CodexItem(b.input[k])]
      BY <1>3 DEF CodexInput
    <2> QED BY <2>1, <2>2, <2>3
  <1>5. p.input = b.input
    <2>1. p.input = CodexInput(b.input)
      BY DEF PrepareCodex, Prepared, Bodies
    <2> QED BY <1>4, <2>1
  <1>6. /\ p.model = b.model /\ p.tools = b.tools
        /\ p.stream /\ p.instructions /\ p.store = "false" /\ p.include = "encrypted"
        /\ p.tier \in {None, "priority"} /\ p.fields \cap CodexStripped = {}
        /\ p.fields \cap HttpStripped = {}
    BY <1>1, PrepareCodexFacts
  <1> HIDE DEF p
  <1> QED
    BY <1>5, <1>6 DEF CodexReads, FitForHttp

\* The only exchanges: an upgrade, and the HTTP one.
LEMMA Exchanged ==
  ASSUME ExecutorTypes
  PROVE  /\ Connect => \E x \in Exchanges : /\ wire' = Append(wire, x) /\ x.by = "socket"
                                           /\ x.body = body
                                           /\ x.headers = InjectTrace(ApplyWebsocketHeaders(hdrs))
         /\ Send => \E x \in Exchanges :
              /\ wire' = Append(wire, x) /\ x.by = "http"
              /\ x.body = (IF verbatim THEN req.body ELSE body)
              /\ x.headers = InjectTrace([hdrs EXCEPT ![ContentType] = "gateway"])
  <1> DEFINE s == InjectTrace(ApplyWebsocketHeaders(hdrs))
             t == InjectTrace([hdrs EXCEPT ![ContentType] = "gateway"])
             b == IF verbatim THEN req.body ELSE body
             x == [by |-> "socket", body |-> body, headers |-> s]
             y == [by |-> "http", body |-> b, headers |-> t]
  <1>1. s \in HeaderMaps /\ t \in HeaderMaps
    BY SentFacts DEF ExecutorTypes, Keeps
  <1>2. b \in Bodies /\ body \in Bodies
    BY RequestFacts DEF ExecutorTypes
  <1>3. (Connect => wire' = Append(wire, x)) /\ (Send => wire' = Append(wire, y))
    BY DEF Connect, Send
  <1> HIDE DEF s, t, b
  <1>4. /\ x \in Exchanges /\ x.by = "socket" /\ x.body = body /\ x.headers = s
        /\ y \in Exchanges /\ y.by = "http" /\ y.body = b /\ y.headers = t
    <2> HIDE DEF Bodies, HeaderMaps
    <2> QED BY <1>1, <1>2 DEF Exchanges
  <1> HIDE DEF x, y
  <1>5. Connect => \E z \in Exchanges : /\ wire' = Append(wire, z) /\ z.by = "socket"
                                        /\ z.body = body /\ z.headers = s
    BY <1>3, <1>4
  <1>6. Send => \E z \in Exchanges : /\ wire' = Append(wire, z) /\ z.by = "http"
                                     /\ z.body = b /\ z.headers = t
    BY <1>3, <1>4
  <1> QED
    BY <1>5, <1>6 DEF s, t, b

\* Steps that change neither the body nor the exchanges.
Waits ==
  \/ Rejected \/ Credited \/ Reads \/ Delivers \/ HandshakeExpires \/ TtfbExpires
  \/ DeadlineExpires \/ HandshakeFails \/ Open \/ Create \/ Collect \/ OpenStream
  \/ Refusals \/ Headers \/ Breaks \/ SocketSteps

LEMMA WaitsKeep ==
  ASSUME Waits
  PROVE  /\ UNCHANGED <<req, body, verbatim, wire>>
         /\ pc' # pc /\ pc' \notin {"connect", "send"} =>
              pc' \in {"create", "collect", "refused", "read", "deliver", "done"}
         /\ pc' # pc /\ pc' \in {"connect", "send"} =>
              pc = "auth" /\ pc' = IF Upgrades THEN "connect" ELSE "send"
  <1> USE DEF Finish
  <1>1. CASE Rejected \/ TtfbExpires \/ Breaks
    BY <1>1 DEF Rejected, TtfbExpires, Breaks
  <1>2. CASE Credited
    BY <1>2 DEF Credited, AuthorizeWith
  <1>3. CASE Reads
    BY <1>3 DEF Reads, ReadBody
  <1>4. CASE Delivers \/ OpenStream \/ Refusals
    BY <1>4 DEF Delivers, Deliver, OpenStream, Refusals, ReadRefusal
  <1>5. CASE HandshakeExpires \/ HandshakeFails \/ DeadlineExpires
    BY <1>5 DEF HandshakeExpires, HandshakeFails, DeadlineExpires
  <1>6. CASE Open \/ Create
    BY <1>6 DEF Open, Create
  <1>7. CASE Collect
    BY <1>7 DEF Collect
  <1>8. CASE Headers
    BY <1>8 DEF Headers
  <1>9. CASE SocketSteps
    BY <1>9 DEF SocketSteps, attemptVars
  <1> QED
    BY <1>1, <1>2, <1>3, <1>4, <1>5, <1>6, <1>7, <1>8, <1>9 DEF Waits

LEMMA BodiesStep ==
  ASSUME ExecutorTypes, BodiesFit, Steps
  PROVE  BodiesFit'
  <1> HIDE DEF Bodies, HeaderMaps, Exchanges
  <1>1. CASE Waits
    <2>1. /\ UNCHANGED <<req, body, verbatim, wire>>
          /\ pc' # pc /\ pc' \notin {"connect", "send"} =>
               pc' \in {"create", "collect", "refused", "read", "deliver", "done"}
          /\ pc' # pc /\ pc' \in {"connect", "send"} =>
               pc = "auth" /\ pc' = IF Upgrades THEN "connect" ELSE "send"
      BY <1>1, WaitsKeep
    <2>2. UpstreamsGetWhatTheyAccept'
      BY <2>1, AcceptsKeep DEF BodiesFit
    <2>3. Upgrades' <=> Upgrades
      BY <2>1, TargetKeeps
    <2>4. Fits(body) => Fits(body)'
      BY <2>1, FitsKeep
    <2>5. Resent' <=> Resent
      BY <2>1, <2>3 DEF Resent, CodexReads, FitForHttp
    <2>6. pc' = "send" /\ wire' # <<>> => pc = "send"
      BY <2>1 DEF BodiesFit
    <2> QED BY <2>1, <2>2, <2>3, <2>4, <2>5, <2>6 DEF BodiesFit
  <1>2. CASE Begun
    <2>1. PICK b, raw, headers, recorded :
            Ready(b, raw, headers, recorded) /\ Begin(b, raw, headers, recorded)
      BY <1>2 DEF Begun
    <2>2. /\ pc = "build" /\ pc' = "auth" /\ req' = req /\ wire' = wire /\ body' = b
          /\ verbatim' = raw /\ (raw => b = req.body) /\ Fits(b) /\ wire = <<>>
      BY <1>2, <2>1 DEF Begun, Begin, Ready, BodiesFit
    <2>3. UpstreamsGetWhatTheyAccept'
      BY <2>2, AcceptsKeep DEF BodiesFit
    <2>4. Fits(body)'
      BY <2>2, FitsKeep
    <2> QED BY <2>2, <2>3, <2>4 DEF BodiesFit
  <1>3. CASE Connect
    <2>1. PICK x \in Exchanges : wire' = Append(wire, x) /\ x.by = "socket" /\ x.body = body
      BY <1>3, Exchanged
    <2>2. /\ pc = "connect" /\ pc' = "handshake" /\ req' = req /\ body' = body /\ wire = <<>>
          /\ Fits(body) /\ Upgrades /\ verbatim' = verbatim /\ (verbatim => body = req.body)
      BY <1>3 DEF Connect, BodiesFit
    <2>3. UpstreamsGetWhatTheyAccept'
      BY <2>1, <2>2, AcceptsFirst
    <2>4. Fits(body)'
      BY <2>2, FitsKeep
    <2>5. Upgrades' /\ wire' # <<>>
      BY <2>1, <2>2, TargetKeeps
    <2> QED BY <2>2, <2>3, <2>4, <2>5 DEF BodiesFit
  <1>4. CASE Send
    <2>1. PICK x \in Exchanges : /\ wire' = Append(wire, x) /\ x.by = "http"
                                 /\ x.body = (IF verbatim THEN req.body ELSE body)
      BY <1>4, Exchanged
    <2>2. pc = "send" /\ pc' = "wait" /\ req' = req /\ verbatim' = verbatim
      BY <1>4 DEF Send
    <2>3. CASE wire = <<>>
      <3>1. ~Upgrades /\ Fits(body) /\ (verbatim => body = req.body)
        BY <2>2, <2>3 DEF BodiesFit
      <3>2. Fits(x.body)
        BY <2>1, <3>1
      <3>3. UpstreamsGetWhatTheyAccept'
        BY <2>1, <2>2, <2>3, <3>1, <3>2, AcceptsFirst
      <3> QED BY <2>2, <3>3 DEF BodiesFit
    <2>4. CASE wire # <<>>
      <3>1. wire \in Seq(Exchanges) /\ UpstreamsGetWhatTheyAccept
        BY DEF ExecutorTypes, BodiesFit
      <3>2. Resent
        BY <2>2, <2>4 DEF BodiesFit
      <3>3. /\ Upgrades /\ CodexReads(x.body) /\ x.body.model # "client"
            /\ FitForHttp(x.body) \/ verbatim
        BY <2>1, <3>2 DEF Resent
      <3>4. UpstreamsGetWhatTheyAccept'
        BY <2>1, <2>2, <2>4, <3>1, <3>3, AcceptsLater
      <3> QED BY <2>2, <3>4 DEF BodiesFit
    <2> QED BY <2>3, <2>4
  <1>5. CASE UpgradeRequired
    <2>1. /\ pc = "handshake" /\ pc' = "send" /\ req' = req /\ wire' = wire
          /\ verbatim' = verbatim /\ body' = PrepareCodex(body, FALSE).body
      BY <1>5 DEF UpgradeRequired
    <2>2. wire # <<>> /\ Upgrades /\ Fits(body) /\ (verbatim => body = req.body)
      BY <2>1 DEF BodiesFit
    <2>3. UpstreamsGetWhatTheyAccept'
      BY <2>1, AcceptsKeep DEF BodiesFit
    <2>4. body \in Bodies /\ CodexReads(body) /\ body.model # "client"
      BY <2>2 DEF Fits, CodexFits, Upgrades, Websocket, ChatLike, ExecutorTypes
    <2>5. CodexReads(body') /\ FitForHttp(body') /\ body'.model # "client"
      BY <2>1, <2>4, PreparedAgain
    <2>6. Resent'
      <3>1. Upgrades'
        BY <2>1, <2>2, TargetKeeps
      <3>2. CodexReads(body)' /\ FitForHttp(body)'
        BY <2>5 DEF CodexReads, FitForHttp
      <3>3. verbatim => CodexReads(req.body)' /\ req'.body.model # "client"
        BY <2>1, <2>2, <2>4 DEF CodexReads
      <3> QED BY <2>1, <2>5, <3>1, <3>2, <3>3 DEF Resent
    <2> QED BY <2>1, <2>2, <2>3, <2>6 DEF BodiesFit
  <1> QED
    BY <1>1, <1>2, <1>3, <1>4, <1>5 DEF Steps, Waits
-----------------------------------------------------------------------------
(* Headers on the wire and in the answer.                                    *)

OwnedExchange(x, r) ==
  /\ x.headers[Authorization] = "provider" /\ x.headers[TraceParent] = "gateway"
  /\ x.headers[Handshake] = Absent
  /\ x.headers[ContentType] = (IF x.by = "socket" THEN Absent ELSE "gateway")
  /\ r.target.profile # None => x.headers[Title] = Absent
  /\ Undenied(x.headers, r.denyRequest)

LEMMA OwnerParts ==
  HeadersHaveTheirOwner
    <=> /\ \A k \in DOMAIN wire : OwnedExchange(wire[k], req)
        /\ result.ok => Clean(result.headers, req.denyResponse)
  BY DEF HeadersHaveTheirOwner, OwnedExchange, Clean, Undenied

LEMMA OwnerPartsNext ==
  HeadersHaveTheirOwner'
    <=> /\ \A k \in DOMAIN wire' : OwnedExchange(wire'[k], req')
        /\ result'.ok => Clean(result'.headers, req'.denyResponse)
  BY DEF HeadersHaveTheirOwner, OwnedExchange, Clean, Undenied

LEMMA RefusedFacts ==
  ASSUME NEW status, NEW upstream, NEW retry, NEW limits, NEW cause
  PROVE  /\ Refused(status, upstream, retry, limits, cause).ok = FALSE
         /\ Refused(status, upstream, retry, limits, cause).status = status
         /\ Refused(status, upstream, retry, limits, cause).upstream = upstream
         /\ Refused(status, upstream, retry, limits, cause).retry = retry
         /\ Refused(status, upstream, retry, limits, cause).cause = cause
  BY DEF Refused, NoResult

LEMMA OutcomeFacts ==
  /\ BadRequest.ok = FALSE /\ BadRequest.cause = "prepare"
  /\ TimedOut.ok = FALSE /\ TimedOut.cause = "timeout"
  /\ [TimedOut EXCEPT !.cause = "handshake"].ok = FALSE
  /\ [TimedOut EXCEPT !.cause = "handshake"].cause = "handshake"
  /\ NoResult.ok = FALSE
  BY DEF BadRequest, TimedOut, Refused, NoResult

LEMMA GatewayFacts ==
  ASSUME NEW cause
  PROVE  BadGateway(cause).ok = FALSE /\ BadGateway(cause).cause = cause
  BY DEF BadGateway, Refused, NoResult

LEMMA ServedFacts ==
  ASSUME NEW names, NEW kept
  PROVE  LET r == Served(names, kept)
         IN  /\ r.ok = TRUE /\ r.cause = "served"
             /\ r.headers = KeepHeaders(names \cap kept,
                              ForwardResponseHeaders(names, req.denyResponse))
  BY DEF Served, NoResult

LEMMA RefusedIsNone ==
  \A status, upstream, retry, limits, cause :
    Refused(status, upstream, retry, limits, cause).ok = FALSE
  BY DEF Refused, NoResult

\* How an attempt may end.
Ends ==
  \/ result' = result
  \/ result'.ok = FALSE
  \/ \E names \in SUBSET ResponseNames, kept \in SUBSET {RetryAfter} :
       result' = Served(names, kept)

LEMMA StepEnds ==
  ASSUME ExecutorTypes, Steps
  PROVE  Ends
  <1> USE DEF Finish
  <1>0. answer.names \subseteq ResponseNames
    BY DEF ExecutorTypes
  <1> HIDE DEF ResponseNames
  <1>1. CASE Rejected \/ HandshakeExpires \/ TtfbExpires \/ DeadlineExpires
    BY <1>1, OutcomeFacts DEF Rejected, HandshakeExpires, TtfbExpires, DeadlineExpires, Ends
  <1>2. CASE Begun \/ Connect \/ Send \/ UpgradeRequired \/ Headers \/ SocketSteps
    BY <1>2 DEF Begun, Begin, Connect, Send, UpgradeRequired, Headers, SocketSteps,
                attemptVars, Ends
  <1>3. CASE Credited
    <2>1. result' = result \/ result'.ok = FALSE
      BY <1>3 DEF Credited, AuthorizeWith, Refused, NoResult
    <2> QED BY <2>1 DEF Ends
  <1>4. CASE Reads
    <2>1. \/ result' = result
          \/ result' = BadGateway("parse")
          \/ \E s, u, r, l, c : result' = Refused(s, u, r, l, c)
      BY <1>4 DEF Reads, ReadBody
    <2>2. result' = result \/ result'.ok = FALSE
      BY <2>1 DEF BadGateway, Refused, NoResult
    <2> QED BY <2>2 DEF Ends
  <1>5. CASE Delivers
    <2>1. \/ \E s, u, r, l, c : result' = Refused(s, u, r, l, c)
          \/ \E kept \in SUBSET {RetryAfter} : result' = Served(answer.names, kept)
      BY ZenonT(60), <1>5 DEF Delivers, Deliver
    <2> QED BY <1>0, <2>1, RefusedIsNone DEF Ends
  <1>6. CASE HandshakeFails
    <2>1. \E s, u, r, l, c : result' = Refused(s, u, r, l, c)
      BY ZenonT(60), <1>6 DEF HandshakeFails
    <2>2. result'.ok = FALSE
      BY <2>1, RefusedIsNone
    <2> QED BY <2>2 DEF Ends
  <1>7. CASE Open \/ Create
    <2>1. \/ result' = BadGateway("create")
          \/ result' = Served({}, {})
          \/ result' = result
      BY <1>7 DEF Open, Create
    <2> QED BY <2>1, GatewayFacts DEF Ends
  <1>8. CASE Collect
    <2>1. result' = BadGateway("collect") \/ result' = result
      BY <1>8 DEF Collect
    <2> QED BY <2>1, GatewayFacts DEF Ends
  <1>9. CASE OpenStream
    <2>1. PICK a \in Answers : result' = Served(a.names, {RetryAfter}) \/ result' = result
      BY <1>9 DEF OpenStream
    <2> QED BY <2>1, AnswersAreTyped DEF Ends
  <1>11. CASE Refusals
    <2>1. \E s, u, r, l, c : result' = Refused(s, u, r, l, c)
      BY ZenonT(60), <1>11 DEF Refusals, ReadRefusal
    <2>2. result'.ok = FALSE
      BY <2>1, RefusedIsNone
    <2> QED BY <2>2 DEF Ends
  <1>10. CASE Breaks
    BY <1>10, GatewayFacts DEF Breaks, Ends
  <1> QED
    BY <1>1, <1>2, <1>3, <1>4, <1>5, <1>6, <1>7, <1>8, <1>9, <1>10, <1>11 DEF Steps

LEMMA CleanStep ==
  ASSUME ExecutorTypes, Steps, HeadersHaveTheirOwner
  PROVE  result'.ok => Clean(result'.headers, req.denyResponse)
  <1>1. CASE result' = result
    BY <1>1, OwnerParts
  <1>2. CASE result'.ok = FALSE
    BY <1>2
  <1>3. CASE \E names \in SUBSET ResponseNames, kept \in SUBSET {RetryAfter} :
               result' = Served(names, kept)
    <2> HIDE DEF ResponseNames
    <2>1. PICK names \in SUBSET ResponseNames, kept \in SUBSET {RetryAfter} :
            result' = Served(names, kept)
      BY <1>3
    <2>2. /\ result'.headers = KeepHeaders(names \cap kept,
                                 ForwardResponseHeaders(names, req.denyResponse))
          /\ names \cap kept \in SUBSET {RetryAfter}
      BY <2>1, ServedFacts
    <2> QED BY <2>1, <2>2, ForwardFacts
  <1> QED
    BY <1>1, <1>2, <1>3, StepEnds DEF Ends

\* The headers an exchange is begun with.
Armed(h) ==
  /\ h[Handshake] = Absent /\ h[Authorization] = "provider"
  /\ req.target.profile # None => h[Title] = Absent
  /\ Undenied(h, req.denyRequest)

LEMMA ArmedExchange ==
  ASSUME NEW h \in HeaderMaps, Armed(h), NEW x,
         \/ x.by = "socket" /\ x.headers = InjectTrace(ApplyWebsocketHeaders(h))
         \/ x.by = "http" /\ x.headers = InjectTrace([h EXCEPT ![ContentType] = "gateway"])
  PROVE  OwnedExchange(x, req)
  <1> DEFINE s == InjectTrace(ApplyWebsocketHeaders(h))
             t == InjectTrace([h EXCEPT ![ContentType] = "gateway"])
  <1>1. /\ Keeps(h, s) /\ s[TraceParent] = "gateway" /\ s[ContentType] = Absent
        /\ Keeps(h, t) /\ t[TraceParent] = "gateway" /\ t[ContentType] = "gateway"
    BY SentFacts
  <1>2. (x.by = "socket" /\ x.headers = s) \/ (x.by = "http" /\ x.headers = t)
    OBVIOUS
  <1> HIDE DEF s, t
  <1> QED
    BY <1>1, <1>2 DEF Keeps, Armed, OwnedExchange, Undenied

LEMMA OwnedAppend ==
  ASSUME wire \in Seq(Exchanges), NEW x \in Exchanges, wire' = Append(wire, x), req' = req,
         \A k \in DOMAIN wire : OwnedExchange(wire[k], req),
         OwnedExchange(x, req)
  PROVE  \A k \in DOMAIN wire' : OwnedExchange(wire'[k], req')
  <1> HIDE DEF Exchanges
  <1>1. /\ DOMAIN wire' = 1..(Len(wire) + 1) /\ DOMAIN wire = 1..Len(wire)
        /\ Len(wire) \in Nat /\ wire'[Len(wire) + 1] = x
        /\ \A k \in 1..Len(wire) : wire'[k] = wire[k]
    BY AppendType
  <1> TAKE k \in DOMAIN wire'
  <1>2. CASE k = Len(wire) + 1
    BY <1>1, <1>2
  <1>3. CASE k \in 1..Len(wire)
    BY <1>1, <1>3
  <1> QED
    BY <1>1, <1>2, <1>3

LEMMA HeadersStep ==
  ASSUME ExecutorTypes, HeadersFit, Steps
  PROVE  HeadersFit'
  <1> HIDE DEF Bodies, HeaderMaps, Exchanges
  <1>0. result'.ok => Clean(result'.headers, req.denyResponse)
    BY CleanStep DEF HeadersFit
  <1>1. /\ \A k \in DOMAIN wire : OwnedExchange(wire[k], req)
        /\ hdrs \in HeaderMaps /\ wire \in Seq(Exchanges)
    BY OwnerParts DEF HeadersFit, ExecutorTypes
  <1>2. CASE Credited
    <2>1. PICK h \in HeaderMaps :
            /\ AuthorizeWith(h, IF Upgrades THEN "connect" ELSE "send")
            /\ h[Handshake] = hdrs[Handshake] /\ h[Authorization] = "provider"
            /\ req.target.profile # None => h[Title] = Absent
            /\ Undenied(hdrs, req.denyRequest) => Undenied(h, req.denyRequest)
      BY <1>2 DEF Credited
    <2>2. /\ pc = "auth" /\ req' = req /\ wire' = wire
          /\ hdrs' = h \/ pc' = "done"
      BY <2>1 DEF AuthorizeWith, Finish
    <2>3. hdrs[Handshake] = Absent /\ Undenied(hdrs, req.denyRequest)
      BY <2>2 DEF HeadersFit
    <2>4. HeadersHaveTheirOwner'
      BY <1>0, <1>1, <2>2, OwnerPartsNext
    <2> QED BY <2>1, <2>2, <2>3, <2>4 DEF HeadersFit
  <1>3. CASE Waits /\ ~Credited
    <2>1. /\ UNCHANGED <<req, wire>>
          /\ pc' # pc => pc' \in {"create", "collect", "refused", "read", "deliver", "done"}
      <3>1. UNCHANGED <<req, wire>>
        BY <1>3, WaitsKeep
      <3>2. pc' # pc => pc' \notin {"connect", "send"}
        BY ZenonT(60), <1>3 DEF Waits, Rejected, Reads, ReadBody, Delivers, Deliver, HandshakeExpires,
             TtfbExpires, DeadlineExpires, HandshakeFails, Open, Create, Collect, Refusals,
             ReadRefusal, OpenStream, Headers, Breaks, SocketSteps, attemptVars, Finish
      <3> QED BY <1>3, <3>1, <3>2, WaitsKeep
    <2>2. hdrs' = hdrs
      BY <1>3 DEF Waits, Rejected, Reads, ReadBody, Delivers, Deliver, HandshakeExpires,
           TtfbExpires, DeadlineExpires, HandshakeFails, Open, Create, Collect, Refusals,
           ReadRefusal, OpenStream, Headers, Breaks, SocketSteps, attemptVars
    <2>3. HeadersHaveTheirOwner'
      BY <1>0, <1>1, <2>1, OwnerPartsNext
    <2> QED BY <2>1, <2>2, <2>3 DEF HeadersFit
  <1>4. CASE Begun
    <2>1. PICK b, raw, headers, recorded :
            Ready(b, raw, headers, recorded) /\ Begin(b, raw, headers, recorded)
      BY <1>4 DEF Begun
    <2>2. /\ pc' = "auth" /\ req' = req /\ wire' = wire /\ headers \in HeaderMaps
          /\ hdrs' = MergeClientHeaders(req.client, headers, req.denyRequest)
          /\ headers[Handshake] = Absent /\ Undenied(headers, req.denyRequest)
      BY <2>1 DEF Begin, Ready, Undenied
    <2>3. hdrs'[Handshake] = Absent /\ Undenied(hdrs', req.denyRequest)
      BY <2>2, MergeFacts
    <2>4. HeadersHaveTheirOwner'
      BY <1>0, <1>1, <2>2, OwnerPartsNext
    <2> QED BY <2>2, <2>3, <2>4 DEF HeadersFit
  <1>5. CASE Connect
    <2>1. /\ pc = "connect" /\ pc' = "handshake" /\ req' = req /\ hdrs' = hdrs
      BY <1>5 DEF Connect
    <2>2. PICK x \in Exchanges : /\ wire' = Append(wire, x) /\ x.by = "socket"
                                 /\ x.headers = InjectTrace(ApplyWebsocketHeaders(hdrs))
      BY <1>5, Exchanged
    <2>3. Armed(hdrs)
      BY <2>1 DEF HeadersFit, Armed
    <2>4. OwnedExchange(x, req)
      BY <1>1, <2>2, <2>3, ArmedExchange
    <2>5. \A k \in DOMAIN wire' : OwnedExchange(wire'[k], req')
      BY <1>1, <2>1, <2>2, <2>4, OwnedAppend
    <2>6. HeadersHaveTheirOwner'
      BY <1>0, <2>1, <2>5, OwnerPartsNext
    <2> QED BY <2>1, <2>3, <2>6 DEF HeadersFit, Armed
  <1>6. CASE Send
    <2>1. pc = "send" /\ pc' = "wait" /\ req' = req
      BY <1>6 DEF Send
    <2>2. PICK x \in Exchanges :
            /\ wire' = Append(wire, x) /\ x.by = "http"
            /\ x.headers = InjectTrace([hdrs EXCEPT ![ContentType] = "gateway"])
      BY <1>6, Exchanged
    <2>3. Armed(hdrs)
      BY <2>1 DEF HeadersFit, Armed
    <2>4. OwnedExchange(x, req)
      BY <1>1, <2>2, <2>3, ArmedExchange
    <2>5. \A k \in DOMAIN wire' : OwnedExchange(wire'[k], req')
      BY <1>1, <2>1, <2>2, <2>4, OwnedAppend
    <2>6. HeadersHaveTheirOwner'
      BY <1>0, <2>1, <2>5, OwnerPartsNext
    <2> QED BY <2>1, <2>6 DEF HeadersFit
  <1>7. CASE UpgradeRequired
    <2>1. /\ pc = "handshake" /\ pc' = "send" /\ req' = req /\ wire' = wire
          /\ hdrs' = ApplyCodexHeaders(hdrs, FALSE, req.session # None, TRUE)
      BY <1>7 DEF UpgradeRequired
    <2>2. Keeps(hdrs, hdrs')
      BY <1>1, <2>1, CodexHeaderFacts
    <2>3. HeadersHaveTheirOwner'
      BY <1>0, <1>1, <2>1, OwnerPartsNext
    <2>4. Undenied(hdrs', req.denyRequest)
      BY <2>1, <2>2 DEF HeadersFit, Keeps, Undenied
    <2> QED BY <2>1, <2>2, <2>3, <2>4 DEF HeadersFit, Keeps
  <1> QED
    BY <1>2, <1>3, <1>4, <1>5, <1>6, <1>7 DEF Steps, Waits
-----------------------------------------------------------------------------
(* The record and the captures.                                              *)

Unheard == {"timeout", "transport", "parse", "translate"}

\* The two halves of CapturesTellTheExchange.
ClosedWhole ==
  pc = "done" /\ result.cause \notin Unheard =>
    [k \in DOMAIN captures |-> captures[k].status] = answered

SentAsTold ==
  \A k \in DOMAIN captures :
    \/ captures[k].sent = wire[k].body
    \/ req.exec = "edits"
    \/ k > 1 /\ verbatim /\ captures[k].sent = PrepareCodex(wire[k].body, FALSE).body

LEMMA CaptureParts ==
  /\ CapturesTellTheExchange <=> ClosedWhole /\ SentAsTold
  /\ CapturesTellTheExchange' <=> ClosedWhole' /\ SentAsTold'
  BY DEF CapturesTellTheExchange, ClosedWhole, SentAsTold, AfterUpgrade, Unheard

LEMMA SameStatuses ==
  ASSUME NEW c \in Seq(Captures), NEW a \in Seq(Nat), Len(c) = Len(a),
         \A k \in 1..Len(a) : c[k].status = a[k]
  PROVE  [k \in DOMAIN c |-> c[k].status] = a
  <1> HIDE DEF Captures
  <1>1. DOMAIN c = 1..Len(a) /\ a = [k \in 1..Len(a) |-> a[k]]
    BY LenProperties
  <1> QED
    BY <1>1

LEMMA ToldCloses ==
  ASSUME captures' \in Seq(Captures), answered' \in Seq(Nat), Told(Len(answered))'
  PROVE  ClosedWhole'
  <1>1. Len(captures') = Len(answered') /\
        \A k \in 1..Len(answered') : captures'[k].status = answered'[k]
    BY DEF Told
  <1>2. [k \in DOMAIN captures' |-> captures'[k].status] = answered'
    BY <1>1, SameStatuses
  <1> QED
    BY <1>2 DEF ClosedWhole

LEMMA ToldBoth ==
  ASSUME captures \in Seq(Captures), answered \in Seq(Nat), record \in Bodies \cup {None},
         Told(Len(answered)), NEW st \in Nat,
         captures' = Capture(st), answered' = Append(answered, st)
  PROVE  Told(Len(answered))'
  <1> HIDE DEF Captures, Bodies
  <1>1. /\ Len(captures') = Len(captures) + 1
        /\ captures'[Len(captures) + 1].status = st
        /\ \A i \in 1..Len(captures) : captures'[i] = captures[i]
    BY CaptureType
  <1>2. /\ Len(answered) \in Nat /\ Len(answered') = Len(answered) + 1
        /\ answered'[Len(answered) + 1] = st
        /\ \A i \in 1..Len(answered) : answered'[i] = answered[i]
    BY AppendType
  <1> QED
    BY <1>1, <1>2 DEF Told

LEMMA ToldLater ==
  ASSUME captures \in Seq(Captures), answered \in Seq(Nat), record \in Bodies \cup {None},
         Len(answered) > 0, Told(Len(answered) - 1), answered[Len(answered)] \in Nat,
         captures' = Capture(answered[Len(answered)]), answered' = answered
  PROVE  Told(Len(answered))'
  <1> HIDE DEF Captures, Bodies
  <1>1. /\ Len(captures') = Len(captures) + 1
        /\ captures'[Len(captures) + 1].status = answered[Len(answered)]
        /\ \A i \in 1..Len(captures) : captures'[i] = captures[i]
    BY CaptureType
  <1>2. Len(answered) \in Nat
    BY LenProperties
  <1> QED
    BY <1>1, <1>2 DEF Told

LEMMA ToldNot ==
  ASSUME captures \in Seq(Captures), answered \in Seq(Nat), Told(Len(answered)),
         NEW st \in Nat, captures' = captures, answered' = Append(answered, st)
  PROVE  /\ Told(Len(answered) - 1)' /\ Len(answered') > 0
         /\ answered'[Len(answered')] = st /\ Len(answered') = Len(answered) + 1
  <1> HIDE DEF Captures
  <1>1. /\ Len(answered) \in Nat /\ Len(answered') = Len(answered) + 1
        /\ answered'[Len(answered) + 1] = st
        /\ \A i \in 1..Len(answered) : answered'[i] = answered[i]
    BY AppendType
  <1> QED
    BY <1>1 DEF Told

LEMMA SentKeeps ==
  ASSUME SentAsTold, captures' = captures, req' = req, verbatim' = verbatim,
         \A k \in DOMAIN captures : wire'[k] = wire[k]
  PROVE  SentAsTold'
  BY DEF SentAsTold

LEMMA SentCaptured ==
  ASSUME SentAsTold, captures \in Seq(Captures), record \in Bodies \cup {None},
         NEW st \in Nat, captures' = Capture(st), req' = req, verbatim' = verbatim,
         wire' = wire, Len(captures) + 1 = Len(wire),
         Recorded(wire[Len(wire)].body, Len(wire) > 1)
  PROVE  SentAsTold'
  <1> HIDE DEF Captures, Bodies
  <1>1. /\ Len(captures) \in Nat /\ DOMAIN captures' = 1..(Len(captures) + 1)
        /\ DOMAIN captures = 1..Len(captures)
        /\ captures'[Len(captures) + 1].sent = record
        /\ \A i \in 1..Len(captures) : captures'[i] = captures[i]
    BY CaptureType
  <1> SUFFICES ASSUME NEW k \in DOMAIN captures'
               PROVE  \/ captures'[k].sent = wire[k].body
                      \/ req.exec = "edits"
                      \/ /\ k > 1 /\ verbatim
                         /\ captures'[k].sent = PrepareCodex(wire[k].body, FALSE).body
    BY DEF SentAsTold
  <1>2. CASE k \in 1..Len(captures)
    BY <1>1, <1>2 DEF SentAsTold
  <1>3. CASE k = Len(captures) + 1
    BY <1>1, <1>3 DEF Recorded
  <1>4. k \in 1..Len(captures) \/ k = Len(captures) + 1
    BY <1>1
  <1> QED
    BY <1>2, <1>3, <1>4

\* At a stage with a capture for every answer, a finished attempt is told whole.
LEMMA RecordsClose ==
  ASSUME pc' = "done", ClosedWhole', SentAsTold'
  PROVE  RecordsFit'
  BY CaptureParts DEF RecordsFit

\* The attempt ends with the capture of an exchange just answered.
LEMMA RecordsAnswered ==
  ASSUME ExecutorTypes, RecordsFit, pc \in {"handshake", "wait"}, NEW st \in Nat,
         answered' = Append(answered, st), captures' = Capture(st),
         UNCHANGED <<req, verbatim, wire>>
  PROVE  Told(Len(answered))' /\ SentAsTold' /\ Len(wire') = Len(answered') /\ ClosedWhole'
  <1> HIDE DEF Bodies, Exchanges
  <1>1. /\ captures \in Seq(Captures) /\ answered \in Seq(Nat) /\ wire \in Seq(Exchanges)
        /\ record \in Bodies \cup {None}
    BY DEF ExecutorTypes, Captures
  <1>2. /\ Told(Len(answered)) /\ Len(wire) = Len(answered) + 1 /\ SentAsTold
        /\ Recorded(wire[Len(wire)].body, Len(wire) > 1)
    BY CaptureParts DEF RecordsFit
  <1>3. Len(captures) + 1 = Len(wire)
    BY <1>2 DEF Told
  <1>4. Told(Len(answered))'
    BY <1>1, <1>2, ToldBoth
  <1>5. SentAsTold'
    BY <1>1, <1>2, <1>3, SentCaptured
  <1>6. Len(answered') = Len(answered) + 1
    BY <1>1, AppendType
  <1>7. captures' \in Seq(Captures) /\ answered' \in Seq(Nat)
    BY <1>1, CaptureType, AppendType
  <1> QED
    BY <1>2, <1>4, <1>5, <1>6, <1>7, ToldCloses

\* The attempt ends with the capture of an exchange answered before.
LEMMA RecordsRead ==
  ASSUME ExecutorTypes, RecordsFit, pc \in {"create", "collect", "refused", "read", "deliver"},
         captures' = Capture(IF pc \in {"create", "collect"} THEN 101 ELSE answer.status),
         UNCHANGED <<req, verbatim, wire, answered>>, pc' = "done"
  PROVE  RecordsFit'
  <1> HIDE DEF Bodies, Exchanges
  <1>1. /\ captures \in Seq(Captures) /\ answered \in Seq(Nat) /\ wire \in Seq(Exchanges)
        /\ record \in Bodies \cup {None} /\ answer.status \in Nat
    BY DEF ExecutorTypes, Captures
  <1> DEFINE st == IF pc \in {"create", "collect"} THEN 101 ELSE answer.status
  <1>2. /\ Len(answered) > 0 /\ Told(Len(answered) - 1) /\ Len(wire) = Len(answered)
        /\ SentAsTold /\ answered[Len(answered)] = st
        /\ Recorded(wire[Len(wire)].body, Len(wire) > 1)
    BY CaptureParts DEF RecordsFit
  <1>3. st \in Nat /\ captures' = Capture(st)
    BY <1>1
  <1> HIDE DEF st
  <1>4. Len(captures) + 1 = Len(wire)
    <2>1. Len(wire) \in Nat /\ Len(answered) \in Nat
      BY <1>1, LenProperties
    <2> QED BY <1>2, <2>1 DEF Told
  <1>5. Told(Len(answered))'
    BY <1>1, <1>2, <1>3, ToldLater
  <1>6. SentAsTold'
    BY <1>1, <1>2, <1>3, <1>4, SentCaptured
  <1>7. captures' \in Seq(Captures)
    BY <1>1, <1>3, CaptureType
  <1> QED
    BY <1>1, <1>5, <1>6, <1>7, ToldCloses, RecordsClose

LEMMA RecordsStep ==
  ASSUME ExecutorTypes, BodiesFit, RecordsFit, AnswersFit, Steps
  PROVE  RecordsFit'
  <1> USE DEF Finish
  <1> HIDE DEF Bodies, HeaderMaps, Exchanges
  <1>0. /\ captures \in Seq(Captures) /\ answered \in Seq(Nat) /\ wire \in Seq(Exchanges)
        /\ record \in Bodies \cup {None} /\ SentAsTold /\ Len(wire) \in Nat
        /\ Len(answered) \in Nat
    BY CaptureParts, LenProperties DEF ExecutorTypes, Captures, RecordsFit
  <1>1. CASE captures' = captures /\ answered' = answered /\ pc' = "done"
             /\ UNCHANGED <<req, verbatim, wire>>
             /\ (result'.cause \in Unheard \/ pc \in {"build", "auth"})
    <2>1. SentAsTold'
      BY <1>0, <1>1, SentKeeps
    <2>2. CASE result'.cause \in Unheard
      <3>1. ClosedWhole'
        BY <2>2 DEF ClosedWhole
      <3> QED BY <1>1, <2>1, <3>1, RecordsClose
    <2>3. CASE pc \in {"build", "auth"}
      <3>1. Told(Len(answered))
        BY <2>3 DEF RecordsFit
      <3>2. Told(Len(answered))'
        BY <1>1, <3>1 DEF Told
      <3>3. ClosedWhole'
        BY <1>0, <1>1, <3>2, ToldCloses
      <3> QED BY <1>1, <2>1, <3>3, RecordsClose
    <2> QED BY <1>1, <2>2, <2>3
  <1>2. CASE Rejected
    BY <1>1, <1>2 DEF Rejected
  <1>3. CASE Begun
    <2>1. PICK b, raw, headers, recorded :
            Ready(b, raw, headers, recorded) /\ Begin(b, raw, headers, recorded)
      BY <1>3 DEF Begun
    <2>2. /\ pc = "build" /\ pc' = "auth" /\ body' = b /\ verbatim' = raw
          /\ record' = recorded /\ (raw => b = req.body)
          /\ (recorded = b \/ req.exec = "edits")
          /\ UNCHANGED <<req, wire, answered, captures>>
      BY <1>3, <2>1 DEF Begun, Begin, Ready
    <2>3. Told(Len(answered)) /\ Len(wire) = Len(answered) /\ wire = <<>>
      BY <2>2 DEF RecordsFit, BodiesFit
    <2>4. captures' = <<>>
      <3>1. Len(captures) = 0
        BY <2>3 DEF Told
      <3> QED BY <1>0, <2>2, <3>1, EmptySeq
    <2>5. SentAsTold' /\ ClosedWhole'
      BY <2>2, <2>4 DEF SentAsTold, ClosedWhole
    <2>6. Told(Len(answered))'
      BY <2>2, <2>3 DEF Told
    <2>7. Recorded(IF verbatim THEN req.body ELSE body, wire # <<>>)'
      BY <2>2 DEF Recorded
    <2> QED
      BY <2>2, <2>3, <2>5, <2>6, <2>7, CaptureParts DEF RecordsFit
  <1>4. CASE Credited
    <2>1. /\ pc = "auth"
          /\ UNCHANGED <<req, body, verbatim, record, wire, answered, captures>>
          /\ pc' \in {"connect", "send", "done"}
      BY <1>4 DEF Credited, AuthorizeWith
    <2>2. CASE pc' = "done"
      BY <1>1, <2>1, <2>2
    <2>3. CASE pc' # "done"
      <3>1. /\ Told(Len(answered)) /\ Len(wire) = Len(answered)
            /\ Recorded(IF verbatim THEN req.body ELSE body, wire # <<>>)
        BY <2>1 DEF RecordsFit
      <3>2. Told(Len(answered))' /\ Recorded(IF verbatim THEN req.body ELSE body, wire # <<>>)'
        BY <2>1, <3>1 DEF Told, Recorded
      <3>3. SentAsTold' /\ ClosedWhole'
        BY <1>0, <2>1, <2>3, SentKeeps DEF ClosedWhole
      <3> QED BY <2>1, <2>3, <3>1, <3>2, <3>3, CaptureParts DEF RecordsFit
    <2> QED BY <2>2, <2>3
  <1>5. CASE Connect
    <2>1. PICK x \in Exchanges : wire' = Append(wire, x) /\ x.body = body
      BY <1>5, Exchanged
    <2>2. /\ pc = "connect" /\ pc' = "handshake" /\ record' = body
          /\ UNCHANGED <<req, body, verbatim, answered, captures>>
      BY <1>5 DEF Connect
    <2>3. Told(Len(answered)) /\ Len(wire) = Len(answered)
      BY <2>2 DEF RecordsFit
    <2>4. /\ Len(wire') = Len(wire) + 1 /\ wire'[Len(wire) + 1] = x
          /\ \A k \in 1..Len(wire) : wire'[k] = wire[k]
      BY <1>0, <2>1, AppendType
    <2>5. DOMAIN captures = 1..Len(wire)
      BY <1>0, <2>3, LenProperties DEF Told
    <2>6. SentAsTold' /\ ClosedWhole'
      BY <1>0, <2>2, <2>4, <2>5, SentKeeps DEF ClosedWhole
    <2>7. Told(Len(answered))' /\ Recorded(wire[Len(wire)].body, Len(wire) > 1)'
      BY <2>1, <2>2, <2>3, <2>4 DEF Told, Recorded
    <2> QED BY <2>2, <2>3, <2>4, <2>6, <2>7, CaptureParts DEF RecordsFit
  <1>6. CASE Send
    <2>1. PICK x \in Exchanges : /\ wire' = Append(wire, x)
                                 /\ x.body = IF verbatim THEN req.body ELSE body
      BY <1>6, Exchanged
    <2>2. /\ pc = "send" /\ pc' = "wait"
          /\ UNCHANGED <<req, body, verbatim, record, answered, captures>>
      BY <1>6 DEF Send
    <2>3. /\ Told(Len(answered)) /\ Len(wire) = Len(answered)
          /\ Recorded(IF verbatim THEN req.body ELSE body, wire # <<>>)
      BY <2>2 DEF RecordsFit
    <2>4. /\ Len(wire') = Len(wire) + 1 /\ wire'[Len(wire) + 1] = x
          /\ \A k \in 1..Len(wire) : wire'[k] = wire[k]
      BY <1>0, <2>1, AppendType
    <2>5. DOMAIN captures = 1..Len(wire)
      BY <1>0, <2>3, LenProperties DEF Told
    <2>6. SentAsTold' /\ ClosedWhole'
      BY <1>0, <2>2, <2>4, <2>5, SentKeeps DEF ClosedWhole
    <2>7. wire # <<>> => Len(wire') > 1
      BY <1>0, <2>4
    <2>8. Told(Len(answered))' /\ Recorded(wire[Len(wire)].body, Len(wire) > 1)'
      BY <2>1, <2>2, <2>3, <2>4, <2>7 DEF Told, Recorded
    <2> QED BY <2>2, <2>3, <2>4, <2>6, <2>8, CaptureParts DEF RecordsFit
  <1>7. CASE HandshakeExpires
    <2>1. /\ pc = "handshake" /\ answered' = Append(answered, 504) /\ captures' = Capture(504)
          /\ UNCHANGED <<req, verbatim, wire>> /\ pc' = "done"
      BY <1>7 DEF HandshakeExpires
    <2> QED BY <2>1, RecordsAnswered, RecordsClose
  <1>8. CASE HandshakeFails
    <2>1. PICK a \in Answers \cup {NoConnection} :
            /\ pc = "handshake" /\ answered' = Append(answered, a.status)
            /\ captures' = Capture(a.status)
            /\ UNCHANGED <<req, verbatim, wire>> /\ pc' = "done"
      BY <1>8 DEF HandshakeFails
    <2>2. a.status \in Nat
      BY NoConnectionFacts, AnswersAreTyped
    <2> QED BY <2>1, <2>2, RecordsAnswered, RecordsClose
  <1>9. CASE UpgradeRequired
    <2>1. /\ pc = "handshake" /\ answered' = Append(answered, 426) /\ captures' = Capture(426)
          /\ UNCHANGED <<req, verbatim, wire>> /\ pc' = "send" /\ record' = body'
          /\ body' = PrepareCodex(body, FALSE).body
      BY <1>9 DEF UpgradeRequired
    <2>2. /\ Told(Len(answered))' /\ SentAsTold' /\ Len(wire') = Len(answered')
          /\ ClosedWhole'
      BY <2>1, RecordsAnswered
    <2>3. wire' # <<>> /\ (verbatim => body = req.body)
      BY <2>1 DEF BodiesFit
    <2>4. Recorded(IF verbatim THEN req.body ELSE body, wire # <<>>)'
      BY <2>1, <2>3 DEF Recorded
    <2> QED BY <2>1, <2>2, <2>4, CaptureParts DEF RecordsFit
  <1>10. CASE Open
    <2>1. /\ pc = "handshake" /\ answered' = Append(answered, 101) /\ pc' = "create"
          /\ UNCHANGED <<req, verbatim, wire, record, captures>>
      BY <1>10 DEF Open
    <2>2. /\ Told(Len(answered)) /\ Len(wire) = Len(answered) + 1
          /\ Recorded(wire[Len(wire)].body, Len(wire) > 1)
      BY <2>1 DEF RecordsFit
    <2>3. /\ Told(Len(answered) - 1)' /\ Len(answered') > 0
          /\ answered'[Len(answered')] = 101 /\ Len(answered') = Len(answered) + 1
      BY <1>0, <2>1, <2>2, ToldNot
    <2>4. SentAsTold' /\ ClosedWhole'
      BY <1>0, <2>1, SentKeeps DEF ClosedWhole
    <2>5. Recorded(wire[Len(wire)].body, Len(wire) > 1)'
      BY <2>1, <2>2 DEF Recorded
    <2> QED BY <2>1, <2>2, <2>3, <2>4, <2>5, CaptureParts DEF RecordsFit
  <1>18. CASE Create
    <2>1. /\ pc = "create" /\ UNCHANGED <<req, verbatim, wire, record, answered>>
          /\ \/ captures' = Capture(101) /\ pc' = "done"
             \/ captures' = captures /\ pc' = "collect"
      BY <1>18 DEF Create
    <2>2. CASE pc' = "done"
      BY <2>1, <2>2, RecordsRead
    <2>3. CASE pc' = "collect" /\ captures' = captures
      <3>1. /\ Told(Len(answered) - 1) /\ Len(wire) = Len(answered) /\ Len(answered) > 0
            /\ Recorded(wire[Len(wire)].body, Len(wire) > 1)
            /\ answered[Len(answered)] = 101
        BY <2>1 DEF RecordsFit
      <3>2. SentAsTold' /\ ClosedWhole'
        BY <1>0, <2>1, <2>3, SentKeeps DEF ClosedWhole
      <3>3. /\ Told(Len(answered) - 1)'
            /\ Recorded(wire[Len(wire)].body, Len(wire) > 1)'
        BY <2>1, <2>3, <3>1 DEF Told, Recorded
      <3> QED BY <2>1, <2>3, <3>1, <3>2, <3>3, CaptureParts DEF RecordsFit
    <2> QED BY <2>1, <2>2, <2>3
  <1>11. CASE Headers
    <2>1. PICK a \in Answers : answer' = a /\ answered' = Append(answered, a.status)
      BY <1>11 DEF Headers
    <2>2. pc = "wait" /\ pc' = "read" /\ UNCHANGED <<req, verbatim, wire, record, captures>>
      BY <1>11 DEF Headers
    <2>3. a.status \in Nat
      BY AnswersAreTyped
    <2>4. /\ Told(Len(answered)) /\ Len(wire) = Len(answered) + 1
          /\ Recorded(wire[Len(wire)].body, Len(wire) > 1)
      BY <2>2 DEF RecordsFit
    <2>5. /\ Told(Len(answered) - 1)' /\ Len(answered') > 0
          /\ answered'[Len(answered')] = a.status /\ Len(answered') = Len(answered) + 1
      BY <1>0, <2>1, <2>2, <2>3, <2>4, ToldNot
    <2>6. SentAsTold' /\ ClosedWhole'
      BY <1>0, <2>2, SentKeeps DEF ClosedWhole
    <2>7. Recorded(wire[Len(wire)].body, Len(wire) > 1)'
      BY <2>2, <2>4 DEF Recorded
    <2> QED BY <2>1, <2>2, <2>4, <2>5, <2>6, <2>7, CaptureParts DEF RecordsFit
  <1>12. CASE OpenStream
    <2>1. PICK a \in Answers :
            /\ pc = "wait" /\ answered' = Append(answered, a.status)
            /\ UNCHANGED <<req, verbatim, wire, record>>
            /\ \/ captures' = Capture(a.status) /\ pc' = "done"
               \/ captures' = captures /\ pc' = "refused" /\ answer' = a
      BY <1>12 DEF OpenStream
    <2>2. a.status \in Nat
      BY AnswersAreTyped
    <2>3. CASE pc' = "done"
      BY <2>1, <2>2, <2>3, RecordsAnswered, RecordsClose
    <2>4. CASE captures' = captures /\ pc' = "refused" /\ answer' = a
      <3>1. /\ Told(Len(answered)) /\ Len(wire) = Len(answered) + 1
            /\ Recorded(wire[Len(wire)].body, Len(wire) > 1)
        BY <2>1 DEF RecordsFit
      <3>2. /\ Told(Len(answered) - 1)' /\ Len(answered') > 0
            /\ answered'[Len(answered')] = a.status /\ Len(answered') = Len(answered) + 1
        BY <1>0, <2>1, <2>2, <2>4, <3>1, ToldNot
      <3>3. SentAsTold' /\ ClosedWhole'
        BY <1>0, <2>1, <2>4, SentKeeps DEF ClosedWhole
      <3>4. Recorded(wire[Len(wire)].body, Len(wire) > 1)'
        BY <2>1, <3>1 DEF Recorded
      <3> QED BY <2>1, <2>4, <3>1, <3>2, <3>3, <3>4, CaptureParts DEF RecordsFit
    <2> QED BY <2>1, <2>3, <2>4
  <1>19. CASE Refusals
    <2>1. /\ pc = "refused" /\ UNCHANGED <<req, verbatim, wire, answered>>
          /\ captures' = Capture(answer.status) /\ pc' = "done"
      BY <1>19 DEF Refusals, ReadRefusal
    <2> QED BY <2>1, RecordsRead
  <1>13. CASE Collect
    <2>1. /\ pc = "collect" /\ UNCHANGED <<req, verbatim, wire, record, answered>>
          /\ \/ captures' = captures /\ pc' = "deliver" /\ answer'.status = 101
             \/ captures' = Capture(101) /\ pc' = "done"
             \/ captures' = captures /\ pc' = "collect"
      BY <1>13 DEF Collect, NoAnswer
    <2>2. CASE pc' = "done"
      BY <2>1, <2>2, RecordsRead
    <2>3. CASE pc' # "done"
      <3>1. /\ Told(Len(answered) - 1) /\ Len(wire) = Len(answered) /\ Len(answered) > 0
            /\ Recorded(wire[Len(wire)].body, Len(wire) > 1)
            /\ answered[Len(answered)] = 101
        BY <2>1 DEF RecordsFit
      <3>2. SentAsTold' /\ ClosedWhole'
        BY <1>0, <2>1, <2>3, SentKeeps DEF ClosedWhole
      <3>3. /\ Told(Len(answered) - 1)'
            /\ Recorded(wire[Len(wire)].body, Len(wire) > 1)'
        BY <2>1, <2>3, <3>1 DEF Told, Recorded
      <3> QED BY <2>1, <2>3, <3>1, <3>2, <3>3, CaptureParts DEF RecordsFit
    <2> QED BY <2>2, <2>3
  <1>14. CASE Reads
    <2>1. /\ pc = "read" /\ UNCHANGED <<req, verbatim, wire, record, answered, answer>>
          /\ \/ captures' = captures /\ pc' = "done" /\ result' = BadGateway("parse")
             \/ captures' = Capture(answer.status) /\ pc' = "done"
             \/ captures' = captures /\ pc' = "deliver"
      BY <1>14 DEF Reads, ReadBody
    <2>2. CASE captures' = Capture(answer.status) /\ pc' = "done"
      BY <2>1, <2>2, RecordsRead
    <2>3. CASE result' = BadGateway("parse") /\ captures' = captures /\ pc' = "done"
      <3>1. result'.cause \in Unheard
        BY <2>3, GatewayFacts DEF Unheard
      <3> QED BY <1>1, <2>1, <2>3, <3>1
    <2>4. CASE captures' = captures /\ pc' = "deliver"
      <3>1. /\ Told(Len(answered) - 1) /\ Len(wire) = Len(answered) /\ Len(answered) > 0
            /\ Recorded(wire[Len(wire)].body, Len(wire) > 1)
            /\ answered[Len(answered)] = answer.status
        BY <2>1 DEF RecordsFit
      <3>2. SentAsTold' /\ ClosedWhole'
        BY <1>0, <2>1, <2>4, SentKeeps DEF ClosedWhole
      <3>3. /\ Told(Len(answered) - 1)'
            /\ Recorded(wire[Len(wire)].body, Len(wire) > 1)'
        BY <2>1, <2>4, <3>1 DEF Told, Recorded
      <3> QED BY <2>1, <2>4, <3>1, <3>2, <3>3, CaptureParts DEF RecordsFit
    <2> QED BY <2>1, <2>2, <2>3, <2>4
  <1>15. CASE Delivers
    <2>1. /\ pc = "deliver" /\ UNCHANGED <<req, verbatim, wire, record, answered, answer>>
          /\ pc' = "done"
          /\ \/ captures' = captures /\ result'.cause = "translate"
             \/ captures' = Capture(answer.status)
      BY <1>15 DEF Delivers, Deliver, Refused, NoResult
    <2>2. CASE captures' = Capture(answer.status)
      BY <2>1, <2>2, RecordsRead
    <2>3. CASE captures' = captures /\ result'.cause = "translate"
      <3>1. result'.cause \in Unheard
        BY <2>3 DEF Unheard
      <3> QED BY <1>1, <2>1, <2>3, <3>1
    <2> QED BY <2>1, <2>2, <2>3
  <1>16. CASE TtfbExpires \/ DeadlineExpires \/ Breaks
    <2>1. /\ UNCHANGED <<req, verbatim, wire, answered, captures>> /\ pc' = "done"
          /\ result' = TimedOut \/ result' = BadGateway("transport")
      BY <1>16 DEF TtfbExpires, DeadlineExpires, Breaks
    <2>2. result'.cause \in Unheard
      BY <2>1, OutcomeFacts, GatewayFacts DEF Unheard
    <2> QED BY <1>1, <2>1, <2>2
  <1>17. CASE SocketSteps
    <2>1. UNCHANGED attemptVars
      BY <1>17 DEF SocketSteps
    <2> QED
      BY <2>1 DEF attemptVars, RecordsFit, Told, Recorded, CapturesTellTheExchange,
                  AfterUpgrade
  <1> QED
    BY <1>2, <1>3, <1>4, <1>5, <1>6, <1>7, <1>8, <1>9, <1>10, <1>11, <1>12, <1>13, <1>14,
       <1>15, <1>16, <1>17, <1>18, <1>19 DEF Steps
-----------------------------------------------------------------------------
(* What the fallback loop hears.                                             *)

LEMMA OtherCause ==
  ASSUME result'.cause \notin {"status", "handshake"}, result'.ok = FALSE
  PROVE  RefusalsAreHeard'
  BY DEF RefusalsAreHeard

LEMMA AnswersStep ==
  ASSUME ExecutorTypes, AnswersFit, Steps
  PROVE  AnswersFit'
  <1> USE DEF Finish
  <1> HIDE DEF Stages
  <1>0. pc \in Stages /\ answered \in Seq(Nat) /\ NoAnswer.body = "none"
    BY DEF ExecutorTypes, NoAnswer
  <1>1. CASE pc' = "done" /\ result'.cause \notin {"status", "handshake"}
             /\ result'.ok = FALSE
    BY <1>1, OtherCause DEF AnswersFit
  <1>2. CASE Rejected
    BY <1>1, <1>2, OutcomeFacts DEF Rejected
  <1>3. CASE Begun
    <2>1. pc = "build" /\ pc' = "auth" /\ answer' = answer
      BY <1>3 DEF Begun, Begin
    <2> QED BY <2>1 DEF AnswersFit, RefusalsAreHeard, Stages
  <1>4. CASE Credited
    <2>1. /\ pc = "auth" /\ answer' = answer
          /\ \/ pc' \in {"connect", "send"}
             \/ pc' = "done" /\ result'.cause = "auth" /\ result'.ok = FALSE
      BY <1>4 DEF Credited, AuthorizeWith, Refused, NoResult
    <2>2. CASE pc' = "done"
      BY <1>1, <2>1, <2>2
    <2>3. CASE pc' # "done"
      BY <2>1, <2>3 DEF AnswersFit, RefusalsAreHeard, Stages
    <2> QED BY <2>2, <2>3
  <1>5. CASE Connect \/ Send \/ UpgradeRequired
    <2>1. /\ pc \in {"connect", "send", "handshake"} /\ answer' = answer
          /\ pc' \in {"handshake", "wait", "send"}
      BY <1>5 DEF Connect, Send, UpgradeRequired
    <2> QED BY <2>1 DEF AnswersFit, RefusalsAreHeard, Stages
  <1>6. CASE TtfbExpires \/ DeadlineExpires
    <2>1. pc' = "done" /\ result'.ok = FALSE /\ result'.cause = "timeout"
      BY <1>6, OutcomeFacts DEF TtfbExpires, DeadlineExpires
    <2> QED BY <1>1, <2>1
  <1>7. CASE HandshakeExpires \/ HandshakeFails
    <2>1. PICK st \in Nat :
            /\ answered' = Append(answered, st) /\ pc' = "done"
            /\ result'.ok = FALSE /\ result'.cause = "handshake"
            /\ result'.status = st /\ result'.upstream = st
      <3>1. CASE HandshakeExpires
        BY <3>1 DEF HandshakeExpires, TimedOut, Refused, NoResult
      <3>2. CASE HandshakeFails
        <4>1. PICK a \in Answers \cup {NoConnection} :
                /\ answered' = Append(answered, a.status) /\ pc' = "done"
                /\ result' = Refused(a.status, a.status, FALSE, FALSE, "handshake")
          BY <3>2 DEF HandshakeFails
        <4>2. a.status \in Nat
          BY NoConnectionFacts, AnswersAreTyped
        <4> QED BY <4>1, <4>2 DEF Refused, NoResult
      <3> QED BY <1>7, <3>1, <3>2
    <2>2. answered'[Len(answered')] = st
      BY <1>0, <2>1, AppendType
    <2> QED BY <2>1, <2>2 DEF AnswersFit, RefusalsAreHeard
  <1>8. CASE Breaks
    <2>1. pc' = "done" /\ result'.ok = FALSE /\ result'.cause = "transport"
      BY <1>8, GatewayFacts DEF Breaks
    <2> QED BY <1>1, <2>1
  <1>9. CASE Create
    <2>1. /\ pc = "create" /\ answer' = answer /\ req' = req
          /\ \/ pc' = "done" /\ result' = BadGateway("create")
             \/ pc' = "done" /\ result' = Served({}, {})
             \/ pc' = "collect" /\ ~req.stream
      BY <1>9 DEF Create
    <2>2. answer' = NoAnswer
      BY <2>1 DEF AnswersFit, Stages
    <2>3. CASE pc' = "done" /\ result' = BadGateway("create")
      BY <1>1, <2>3, GatewayFacts
    <2>4. CASE pc' = "done" /\ result' = Served({}, {})
      <3>1. result'.cause = "served"
        BY <2>4, ServedFacts
      <3> QED BY <1>0, <2>2, <2>4, <3>1 DEF AnswersFit, RefusalsAreHeard
    <2>5. CASE pc' = "collect" /\ ~req.stream
      BY <2>1, <2>2, <2>5 DEF AnswersFit, RefusalsAreHeard
    <2> QED BY <2>1, <2>3, <2>4, <2>5
  <1>10. CASE Collect
    <2> DEFINE a == [NoAnswer EXCEPT !.status = 101, !.body = "json"]
    <2>1. /\ pc = "collect" /\ req' = req
          /\ \/ pc' = "deliver" /\ answer' = a
             \/ pc' = "done" /\ result' = BadGateway("collect")
             \/ pc' = "collect" /\ answer' = answer
      BY <1>10 DEF Collect
    <2>6. ~req'.stream
      BY <2>1 DEF AnswersFit
    <2>2. a.body = "json"
      BY DEF NoAnswer
    <2> HIDE DEF a
    <2>3. CASE pc' = "deliver" /\ answer' = a
      BY <2>1, <2>2, <2>3, <2>6 DEF AnswersFit, RefusalsAreHeard, Stages
    <2>4. CASE pc' = "done" /\ result' = BadGateway("collect")
      BY <1>1, <2>4, GatewayFacts
    <2>5. CASE pc' = "collect" /\ answer' = answer
      BY <2>1, <2>5, <2>6 DEF AnswersFit, RefusalsAreHeard, Stages
    <2> QED BY <2>1, <2>3, <2>4, <2>5
  <1>11. CASE Headers
    <2>1. PICK a \in Answers : answer' = a /\ answered' = Append(answered, a.status)
      BY <1>11 DEF Headers
    <2>2. pc' = "read" /\ ~req'.stream
      BY <1>11 DEF Headers
    <2>3. answered' # <<>> /\ answered'[Len(answered')] = a.status
      BY <1>0, <2>1, AnswersAreTyped, AppendType
    <2> QED BY <2>1, <2>2, <2>3 DEF AnswersFit, RefusalsAreHeard, Stages
  <1>12. CASE OpenStream
    <2>1. PICK a \in Answers :
            /\ pc = "wait" /\ req' = req /\ answered' = Append(answered, a.status)
            /\ \/ pc' = "done" /\ result' = Served(a.names, {RetryAfter}) /\ answer' = answer
               \/ pc' = "refused" /\ answer' = a
      BY <1>12 DEF OpenStream
    <2>2. answer = NoAnswer
      BY <2>1 DEF AnswersFit, Stages
    <2>3. answered' # <<>> /\ answered'[Len(answered')] = a.status
      BY <1>0, <2>1, AnswersAreTyped, AppendType
    <2>4. CASE pc' = "done" /\ result' = Served(a.names, {RetryAfter}) /\ answer' = answer
      <3>1. result'.cause = "served"
        BY <2>4, ServedFacts
      <3> QED BY <1>0, <2>1, <2>2, <2>4, <3>1 DEF AnswersFit, RefusalsAreHeard
    <2>5. CASE pc' = "refused" /\ answer' = a
      BY <2>3, <2>5 DEF AnswersFit, RefusalsAreHeard
    <2> QED BY <2>1, <2>4, <2>5
  <1>16. CASE Refusals
    <2>1. PICK limits :
            /\ pc = "refused" /\ pc' = "done" /\ UNCHANGED <<req, answered, answer>>
            /\ result' = Refused(answer.status, answer.status, RetryAfter \in answer.names,
                                 limits /\ Limits \in answer.names, "status")
      BY <1>16 DEF Refusals, ReadRefusal
    <2>2. /\ answer \in Answers /\ answered[Len(answered)] = answer.status
          /\ req.exec # "embeddings"
      BY <1>16, <2>1 DEF AnswersFit, Refusals
    <2>3. /\ result'.ok = FALSE /\ result'.status = answer.status
          /\ result'.upstream = answer.status
          /\ result'.retry = (RetryAfter \in answer.names) /\ result'.cause = "status"
      BY <2>1 DEF Refused, NoResult
    <2> QED BY <2>1, <2>2, <2>3 DEF AnswersFit, RefusalsAreHeard
  <1>17. CASE Open
    <2>1. pc = "handshake" /\ pc' = "create" /\ answer' = answer
      BY <1>17 DEF Open
    <2> QED BY <2>1 DEF AnswersFit, RefusalsAreHeard, Stages
  <1>13. CASE Reads
    <2>1. PICK parsed, retries, limits :
            /\ ReadBody(parsed, retries, limits)
            /\ retries <=> req.exec # "embeddings"
            /\ parsed \in {"json", "mixed"} => answer.body \in {"json", "mixed", "completed"}
      BY <1>13 DEF Reads
    <2>2. /\ pc = "read" /\ UNCHANGED <<req, answered, answer>>
          /\ \/ pc' = "done" /\ result' = BadGateway("parse")
             \/ pc' = "done" /\ result' = Refused(answer.status, answer.status,
                  retries /\ RetryAfter \in answer.names,
                  limits /\ Limits \in answer.names, "status")
             \/ pc' = "done" /\ result' = Refused(answer.status, answer.status,
                  retries /\ RetryAfter \in answer.names,
                  limits /\ Limits \in answer.names, "body")
             \/ pc' = "deliver" /\ answer.body \in {"json", "mixed", "completed"}
      BY <2>1 DEF ReadBody
    <2>3. ~req.stream /\ answered[Len(answered)] = answer.status /\ answer \in Answers
      BY <2>2 DEF AnswersFit
    <2>4. CASE pc' = "done" /\ result' = BadGateway("parse")
      BY <1>1, <2>4, GatewayFacts
    <2>5. CASE pc' = "done" /\ result' = Refused(answer.status, answer.status,
                 retries /\ RetryAfter \in answer.names,
                 limits /\ Limits \in answer.names, "status")
      <3>1. /\ result'.ok = FALSE /\ result'.status = answer.status
            /\ result'.upstream = answer.status /\ result'.cause = "status"
            /\ result'.retry <=> retries /\ RetryAfter \in answer.names
        BY <2>5 DEF Refused, NoResult
      <3> QED BY <2>1, <2>2, <2>3, <2>5, <3>1 DEF AnswersFit, RefusalsAreHeard
    <2>6. CASE pc' = "done" /\ result' = Refused(answer.status, answer.status,
                 retries /\ RetryAfter \in answer.names,
                 limits /\ Limits \in answer.names, "body")
      <3>1. result'.ok = FALSE /\ result'.cause = "body"
        BY <2>6 DEF Refused, NoResult
      <3> QED BY <1>1, <2>6, <3>1
    <2>7. CASE pc' = "deliver" /\ answer.body \in {"json", "mixed", "completed"}
      BY <2>2, <2>3, <2>7 DEF AnswersFit, RefusalsAreHeard
    <2> QED BY <2>2, <2>4, <2>5, <2>6, <2>7
  <1>14. CASE Delivers
    <2>1. PICK kept :
          /\ pc = "deliver" /\ pc' = "done" /\ UNCHANGED <<req, answered, answer>>
          /\ \/ result' = Refused(500, 0, FALSE, FALSE, "translate")
             \/ result' = Served(answer.names, kept)
      BY <1>14 DEF Delivers, Deliver
    <2>2. CASE result' = Refused(500, 0, FALSE, FALSE, "translate")
      <3>1. result'.ok = FALSE /\ result'.cause = "translate"
        BY <2>2 DEF Refused, NoResult
      <3> QED BY <1>1, <2>1, <3>1
    <2>3. CASE result' = Served(answer.names, kept)
      <3>1. result'.cause = "served"
        BY <2>3, ServedFacts
      <3>2. answer.body \in {"json", "mixed", "completed"}
        BY <2>1 DEF AnswersFit
      <3> QED BY <2>1, <3>1, <3>2 DEF AnswersFit, RefusalsAreHeard
    <2> QED BY <2>1, <2>2, <2>3
  <1>15. CASE SocketSteps
    <2>1. UNCHANGED attemptVars
      BY <1>15 DEF SocketSteps
    <2> QED BY <2>1 DEF attemptVars, AnswersFit, RefusalsAreHeard
  <1> QED
    BY <1>2, <1>3, <1>4, <1>5, <1>6, <1>7, <1>8, <1>9, <1>10, <1>11, <1>12, <1>13, <1>14,
       <1>15, <1>16, <1>17 DEF Steps
-----------------------------------------------------------------------------
(* The task of the socket.                                                   *)

\* What a frame adds to the events, and what the task has yet to send.
Piece(f) ==
  IF f \in EventFrames THEN <<Normalized(f)>>
  ELSE IF f \in FaultFrames THEN <<"fault">> ELSE <<>>
Pending(h) == IF h = "none" THEN <<>> ELSE <<h>>

LEMMA PieceFacts ==
  ASSUME NEW f \in Frames
  PROVE  /\ Piece(f) \in Seq(Events)
         /\ f \in EventFrames => /\ Piece(f) = <<Normalized(f)>> /\ Normalized(f) \in Events
                                 /\ Normalized(f) # "none"
         /\ f \in FaultFrames => Piece(f) = <<"fault">>
         /\ f \notin EventFrames \cup FaultFrames => Piece(f) = <<>>
  <1>1. CASE f \in EventFrames
    <2>1. Normalized(f) \in Events /\ Normalized(f) # "none" /\ f \notin FaultFrames
      BY <1>1 DEF Normalized, Events, EventFrames, FaultFrames
    <2> QED BY <1>1, <2>1 DEF Piece
  <1>2. CASE f \in FaultFrames
    BY <1>2 DEF Piece, EventFrames, FaultFrames, Events
  <1>3. CASE f \notin EventFrames \cup FaultFrames
    BY <1>3 DEF Piece
  <1> QED
    BY <1>1, <1>2, <1>3

\* The events of one frame more are the events so far and those of the frame.
LEMMA EventsAppend ==
  ASSUME NEW frames \in Seq(Frames), NEW f \in Frames
  PROVE  /\ EventsOf(frames) \in Seq(Events)
         /\ EventsOf(Append(frames, f)) = EventsOf(frames) \o Piece(f)
  <1> DEFINE M(fs) == [k \in DOMAIN fs |-> Piece(fs[k])]
             more == Append(frames, f)
  <1>1. /\ EventsOf(frames) = FlattenSeq(M(frames))
        /\ EventsOf(more) = FlattenSeq(M(more))
    BY DEF EventsOf, Piece
  <1>2. M(frames) \in Seq(Seq(Events))
    <2>1. \A k \in 1..Len(frames) : Piece(frames[k]) \in Seq(Events)
      BY PieceFacts
    <2> QED BY <2>1
  <1>3. M(more) = Append(M(frames), Piece(f))
    <2>1. /\ Len(frames) \in Nat /\ DOMAIN more = 1..(Len(frames) + 1)
          /\ more[Len(frames) + 1] = f /\ \A i \in 1..Len(frames) : more[i] = frames[i]
          /\ DOMAIN frames = 1..Len(frames)
      BY AppendType
    <2>2. Piece(f) \in Seq(Events)
      BY PieceFacts
    <2> DEFINE ms == M(frames)
    <2>3. /\ ms \in Seq(Seq(Events)) /\ Len(ms) = Len(frames)
          /\ \A i \in 1..Len(frames) : ms[i] = Piece(frames[i])
      BY <1>2, <2>1
    <2> HIDE DEF ms
    <2>4. /\ Append(ms, Piece(f)) \in Seq(Seq(Events))
          /\ DOMAIN Append(ms, Piece(f)) = 1..(Len(frames) + 1)
          /\ Append(ms, Piece(f))[Len(frames) + 1] = Piece(f)
          /\ \A i \in 1..Len(frames) : Append(ms, Piece(f))[i] = Piece(frames[i])
      BY <2>2, <2>3, AppendType
    <2>5. \A i \in 1..(Len(frames) + 1) : Append(ms, Piece(f))[i] = Piece(more[i])
      <3> HIDE DEF more
      <3> QED BY <2>1, <2>4
    <2>6. Append(ms, Piece(f)) = [i \in 1..(Len(frames) + 1) |-> Append(ms, Piece(f))[i]]
      <3> DEFINE g == Append(ms, Piece(f))
      <3>1. g \in Seq(Seq(Events)) /\ DOMAIN g = 1..(Len(frames) + 1)
        BY <2>4
      <3> HIDE DEF g
      <3>2. g = [i \in DOMAIN g |-> g[i]]
        BY <3>1
      <3> QED BY <3>1, <3>2 DEF g
    <2>7. Append(ms, Piece(f)) = M(more)
      <3> HIDE DEF more
      <3> QED BY <2>1, <2>5, <2>6
    <2> QED BY <2>7 DEF ms
  <1>4. Piece(f) \in Seq(Events)
    BY PieceFacts
  <1> HIDE DEF M, more
  <1>5. FlattenSeq(M(frames)) \in Seq(Events)
    BY <1>2, FlattenType
  <1>6. FlattenSeq(Append(M(frames), Piece(f))) = FlattenSeq(M(frames)) \o Piece(f)
    BY <1>2, <1>4, FlattenAppend
  <1> QED
    BY <1>1, <1>3, <1>5, <1>6 DEF more

LEMMA NoEvents ==
  EventsOf(<<>>) = <<>>
  BY DEF EventsOf, FlattenSeq

Arrived == receiver => (seen \o chan) \o Pending(held) = EventsOf(heard)
NoneFollows == \A k \in 1..(Len(heard) - 1) : heard[k] \notin Final
NoneFinal == \A k \in DOMAIN heard : heard[k] \notin Final

LEMMA SocketParts ==
  SocketEventsArrive <=>
    (pump # "idle" => Arrived /\ NoneFollows /\ (pump = "gone" => sock # "open"))
  BY DEF SocketEventsArrive, Arrived, NoneFollows, Pending, Final

LEMMA SocketPartsNext ==
  SocketEventsArrive' <=>
    (pump' # "idle" => Arrived' /\ NoneFollows' /\ (pump' = "gone" => sock' # "open"))
  BY DEF SocketEventsArrive, Arrived, NoneFollows, Pending, Final

\* The socket is left alone, by an attempt that has none or by its end.
LEMMA SocketRests ==
  ASSUME SocketFits, pc # "done", UNCHANGED socketVars,
         pc \in {"collect", "deliver"} => pc' = "done"
  PROVE  SocketFits'
  <1>1. pump = "idle" /\ pc' # "done" => heard = <<>>
    BY DEF SocketFits
  <1>2. pump = "idle"
    BY DEF SocketFits
  <1>3. UNCHANGED <<sock, pump, held, chan, heard, seen, receiver>>
    BY DEF socketVars
  <1>4. SocketEventsArrive'
    BY <1>2, <1>3, SocketPartsNext
  <1> QED
    BY <1>1, <1>2, <1>3, <1>4 DEF SocketFits

\* A frame behind frames that are not final.
LEMMA FrameFacts ==
  ASSUME heard \in Seq(Frames), NEW f \in Frames, heard' = Append(heard, f), NoneFinal
  PROVE  /\ heard' \in Seq(Frames) /\ NoneFollows' /\ heard' # <<>>
         /\ heard'[Len(heard')] = f
         /\ f \notin Final => NoneFinal'
         /\ EventsOf(heard) \in Seq(Events)
         /\ EventsOf(heard') = EventsOf(heard) \o Piece(f)
  <1>1. /\ heard' \in Seq(Frames) /\ Len(heard) \in Nat /\ Len(heard') = Len(heard) + 1
        /\ heard'[Len(heard) + 1] = f /\ \A i \in 1..Len(heard) : heard'[i] = heard[i]
        /\ DOMAIN heard' = 1..(Len(heard) + 1) /\ DOMAIN heard = 1..Len(heard)
        /\ heard' # <<>>
    BY AppendType
  <1>2. EventsOf(heard) \in Seq(Events) /\ EventsOf(heard') = EventsOf(heard) \o Piece(f)
    BY EventsAppend
  <1>3. NoneFollows'
    BY <1>1 DEF NoneFollows, NoneFinal
  <1>4. f \notin Final => NoneFinal'
    BY <1>1 DEF NoneFinal
  <1> QED
    BY <1>1, <1>2, <1>3, <1>4

LEMMA FrameStep ==
  ASSUME SocketFits, PumpFrame, UNCHANGED attemptVars
  PROVE  SocketFits'
  <1>1. PICK f \in Frames :
          /\ heard' = Append(heard, f)
          /\ \/ /\ f \in EventFrames /\ held' = Normalized(f) /\ pump' = "send" /\ sock' = sock
             \/ /\ f \in FaultFrames /\ held' = "fault" /\ pump' = "last" /\ sock' = sock
             \/ /\ f \in QuietFrames /\ held' = held /\ pump' = pump /\ sock' = sock
             \/ /\ f = "close" /\ pump' = "gone" /\ sock' = "closed" /\ held' = held
    BY DEF PumpFrame
  <1>2. /\ pump = "recv" /\ UNCHANGED <<chan, seen, receiver, pc>>
        /\ pc = "done" /\ held = "none" /\ NoneFinal /\ heard \in Seq(Frames)
    BY DEF PumpFrame, SocketFits, NoneFinal, attemptVars
  <1>3. /\ heard' \in Seq(Frames) /\ NoneFollows' /\ heard' # <<>>
        /\ heard'[Len(heard')] = f /\ (f \notin Final => NoneFinal')
        /\ EventsOf(heard) \in Seq(Events)
        /\ EventsOf(heard') = EventsOf(heard) \o Piece(f)
    BY <1>1, <1>2, FrameFacts
  <1>4. /\ seen \in Seq(Events) /\ chan \in Seq(Events) /\ receiver \in BOOLEAN
        /\ receiver => seen \o chan = EventsOf(heard)
    <2>1. chan \in Seq(Events) /\ seen \in Seq(Events) /\ receiver \in BOOLEAN
      BY DEF SocketFits
    <2>2. Arrived
      BY <1>2, SocketParts DEF SocketFits
    <2>3. (seen \o chan) \o <<>> = seen \o chan
      BY <2>1, ConcatProperties, ConcatEmptySeq
    <2> QED BY <1>2, <2>1, <2>2, <2>3 DEF Arrived, Pending
  <1>5. Pending(held') = Piece(f) => Arrived'
    BY <1>2, <1>3, <1>4 DEF Arrived
  <1>6. CASE f \in EventFrames /\ held' = Normalized(f) /\ pump' = "send" /\ sock' = sock
    <2>1. Piece(f) = <<Normalized(f)>> /\ Normalized(f) # "none"
      BY <1>6, PieceFacts
    <2>2. Pending(held') = Piece(f)
      BY <1>6, <2>1 DEF Pending
    <2>3. SocketEventsArrive'
      BY <1>3, <1>5, <1>6, <2>2, SocketPartsNext
    <2> QED
      BY <1>2, <1>3, <1>4, <1>6, <2>3 DEF SocketFits
  <1>7. CASE f \in FaultFrames /\ held' = "fault" /\ pump' = "last" /\ sock' = sock
    <2>1. Piece(f) = <<"fault">>
      BY <1>7, PieceFacts
    <2>2. Pending(held') = Piece(f)
      BY <1>7, <2>1 DEF Pending
    <2>3. SocketEventsArrive'
      BY <1>3, <1>5, <1>7, <2>2, SocketPartsNext
    <2> QED
      BY <1>2, <1>3, <1>4, <1>7, <2>3 DEF SocketFits
  <1>8. CASE f \in QuietFrames /\ held' = held /\ pump' = pump /\ sock' = sock
    <2>1. f \notin EventFrames \cup FaultFrames /\ f \notin Final
      BY <1>8 DEF QuietFrames, EventFrames, FaultFrames, Final
    <2>2. Pending(held') = Piece(f)
      BY <1>2, <1>8, <2>1, PieceFacts DEF Pending
    <2>3. SocketEventsArrive'
      BY <1>2, <1>3, <1>5, <1>8, <2>2, SocketPartsNext
    <2> QED
      BY <1>2, <1>3, <1>4, <1>8, <2>1, <2>3 DEF SocketFits, NoneFinal
  <1>9. CASE f = "close" /\ pump' = "gone" /\ sock' = "closed" /\ held' = held
    <2>1. f \notin EventFrames \cup FaultFrames
      BY <1>9 DEF EventFrames, FaultFrames
    <2>2. Pending(held') = Piece(f)
      BY <1>2, <1>9, <2>1, PieceFacts DEF Pending
    <2>3. SocketEventsArrive'
      BY <1>3, <1>5, <1>9, <2>2, SocketPartsNext
    <2> QED
      BY <1>2, <1>3, <1>4, <1>9, <2>3 DEF SocketFits
  <1> QED
    BY <1>1, <1>6, <1>7, <1>8, <1>9

LEMMA SendStep ==
  ASSUME SocketFits, PumpSend, UNCHANGED attemptVars
  PROVE  SocketFits'
  <1>1. /\ pump \in {"send", "last"} /\ receiver /\ chan' = Append(chan, held)
        /\ held' = "none" /\ UNCHANGED <<heard, seen, receiver, pc>>
        /\ pump' = IF pump = "last" THEN "gone" ELSE IF Terminal(held) THEN "close" ELSE "recv"
        /\ sock' = IF pump = "last" THEN "dropped" ELSE sock
    BY DEF PumpSend, attemptVars
  <1>2. /\ chan \in Seq(Events) /\ seen \in Seq(Events) /\ heard \in Seq(Frames)
        /\ receiver \in BOOLEAN /\ pc = "done"
    BY <1>1 DEF SocketFits
  <1>3. Arrived /\ NoneFollows
    BY <1>1, SocketParts DEF SocketFits
  <1>4. held \in Events /\ held # "none"
    <2>1. CASE pump = "last"
      BY <2>1 DEF SocketFits, Events, FaultFrames
    <2>2. CASE pump = "send"
      <3>1. heard[Len(heard)] \in EventFrames /\ held = Normalized(heard[Len(heard)])
        BY <2>2 DEF SocketFits
      <3> QED BY <3>1 DEF Events, EventFrames, Normalized
    <2> QED BY <1>1, <2>1, <2>2
  <1>5. chan' \in Seq(Events) /\ chan' = chan \o <<held>>
    BY <1>1, <1>2, <1>4, AppendIsConcat, AppendType
  <1>6. Arrived'
    <2>1. <<held>> \in Seq(Events)
      BY <1>4
    <2>2. seen \o chan' = (seen \o chan) \o <<held>>
      BY <1>2, <1>5, <2>1, ConcatAssociative
    <2>3. seen \o chan' \in Seq(Events)
      BY <1>2, <1>5, ConcatProperties
    <2>4. (seen \o chan') \o <<>> = seen \o chan'
      BY <2>3, ConcatEmptySeq
    <2> QED BY <1>1, <1>3, <1>4, <2>2, <2>4 DEF Arrived, Pending
  <1>7. NoneFollows'
    BY <1>1, <1>3 DEF NoneFollows
  <1>8. SocketEventsArrive'
    <2>1. pump' = "gone" => sock' # "open"
      BY <1>1
    <2> QED BY <1>6, <1>7, <2>1, SocketPartsNext
  <1>9. pump' = "recv" => NoneFinal'
    <2> SUFFICES ASSUME pump' = "recv" PROVE NoneFinal'
      OBVIOUS
    <2>1. pump = "send" /\ ~Terminal(held)
      BY <1>1
    <2>2. /\ heard # <<>> /\ heard[Len(heard)] \in EventFrames
          /\ held = Normalized(heard[Len(heard)])
      BY <2>1 DEF SocketFits
    <2>3. heard[Len(heard)] \notin Final
      BY <2>1, <2>2 DEF Terminal, Normalized, EventFrames, Final
    <2>4. \A k \in DOMAIN heard : k = Len(heard) \/ k \in 1..(Len(heard) - 1)
      BY <1>2
    <2> QED BY <1>1, <1>3, <2>3, <2>4 DEF NoneFollows, NoneFinal
  <1>10. pump' \in {"recv", "close", "gone"}
    BY <1>1
  <1> QED
    BY <1>1, <1>2, <1>5, <1>8, <1>9, <1>10 DEF SocketFits, NoneFinal

LEMMA PollStep ==
  ASSUME SocketFits, RelayPoll, UNCHANGED attemptVars
  PROVE  SocketFits'
  <1>1. /\ pump # "idle" /\ receiver /\ chan # <<>> /\ seen' = Append(seen, Head(chan))
        /\ chan' = Tail(chan) /\ UNCHANGED <<sock, pump, held, heard, receiver, pc>>
    BY DEF RelayPoll, attemptVars
  <1>2. chan \in Seq(Events) /\ seen \in Seq(Events)
    BY DEF SocketFits
  <1>3. /\ Head(chan) \in Events /\ Tail(chan) \in Seq(Events)
        /\ <<Head(chan)>> \in Seq(Events) /\ <<Head(chan)>> \o Tail(chan) = chan
    BY <1>1, <1>2
  <1>4. seen' \in Seq(Events) /\ seen' = seen \o <<Head(chan)>>
    BY <1>1, <1>2, <1>3, AppendIsConcat, AppendType
  <1>5. seen' \o chan' = seen \o chan
    BY <1>1, <1>2, <1>3, <1>4, ConcatAssociative
  <1>6. Arrived /\ NoneFollows /\ (pump = "gone" => sock # "open")
    BY <1>1, SocketParts DEF SocketFits
  <1>7. Arrived' /\ NoneFollows'
    BY <1>1, <1>5, <1>6 DEF Arrived, NoneFollows
  <1>8. SocketEventsArrive'
    BY <1>1, <1>6, <1>7, SocketPartsNext
  <1> QED
    BY <1>1, <1>3, <1>4, <1>8 DEF SocketFits

\* The task gives up.
LEMMA GivesUpStep ==
  ASSUME SocketFits, PumpSendFails \/ PumpCancelled, UNCHANGED attemptVars
  PROVE  SocketFits'
  <1>1. /\ UNCHANGED <<chan, heard, seen, receiver, pc>> /\ ~receiver
        /\ pump \in {"send", "last", "recv"} /\ pump' \in {"close", "gone"}
        /\ pump' = "gone" => sock' # "open"
    BY DEF PumpSendFails, PumpCancelled, attemptVars
  <1>2. held' = "none" /\ pc = "done"
    BY <1>1 DEF PumpSendFails, PumpCancelled, SocketFits
  <1>3. NoneFollows'
    BY <1>1, SocketParts DEF SocketFits, NoneFollows
  <1>4. SocketEventsArrive'
    BY <1>1, <1>3, SocketPartsNext DEF Arrived
  <1> QED
    BY <1>1, <1>2, <1>4 DEF SocketFits

LEMMA CloseStep ==
  ASSUME SocketFits, PumpClose \/ RelayLeaves, UNCHANGED attemptVars
  PROVE  SocketFits'
  <1>1. /\ UNCHANGED <<chan, heard, seen, held, pc>> /\ pump # "idle"
        /\ \/ pump = "close" /\ pump' = "gone" /\ sock' = "closed" /\ receiver' = receiver
           \/ pump' = pump /\ sock' = sock /\ receiver' = FALSE
    BY DEF PumpClose, RelayLeaves, attemptVars
  <1>2. Arrived /\ NoneFollows /\ (pump = "gone" => sock # "open")
    BY <1>1, SocketParts DEF SocketFits
  <1>3. Arrived' /\ NoneFollows'
    BY <1>1, <1>2 DEF Arrived, NoneFollows
  <1>4. SocketEventsArrive'
    BY <1>1, <1>2, <1>3, SocketPartsNext
  <1> QED
    BY <1>1, <1>4 DEF SocketFits

LEMMA SocketStep ==
  ASSUME ExecutorTypes, SocketFits, Steps
  PROVE  SocketFits'
  <1> USE DEF Finish
  <1>1. CASE Rejected \/ Begun \/ Credited \/ Connect \/ Send \/ Reads \/ Delivers
    <2>1. UNCHANGED socketVars /\ pc \in {"build", "auth", "connect", "send", "read", "deliver"}
          /\ (pc = "deliver" => pc' = "done")
      BY <1>1 DEF Rejected, Begun, Begin, Credited, AuthorizeWith, Connect, Send, Reads,
                  ReadBody, Delivers, Deliver
    <2> QED BY <2>1, SocketRests
  <1>2. CASE HandshakeExpires \/ TtfbExpires \/ HandshakeFails \/ UpgradeRequired
             \/ OpenStream \/ Refusals \/ Headers \/ Breaks
    <2>1. UNCHANGED socketVars /\ pc \in {"handshake", "wait", "refused", "read"}
      BY <1>2 DEF HandshakeExpires, TtfbExpires, HandshakeFails, UpgradeRequired, OpenStream,
                  Refusals, ReadRefusal, Headers, Breaks
    <2> QED BY <2>1, SocketRests
  <1>3. CASE DeadlineExpires
    <2>1. /\ pc \in {"handshake", "create", "collect", "wait", "read"} /\ pc' = "done"
          /\ UNCHANGED <<pump, held, chan, heard, seen, receiver>>
      BY <1>3 DEF DeadlineExpires
    <2>2. pump' = "idle"
      BY <2>1 DEF SocketFits
    <2>3. SocketEventsArrive'
      BY <2>2, SocketPartsNext
    <2> QED BY <2>1, <2>2, <2>3 DEF SocketFits
  <1>4. CASE Open \/ Create
    <2>1. /\ pc \in {"handshake", "create"} /\ pc' \in {"create", "collect", "done"}
          /\ UNCHANGED <<held, chan, heard, seen, receiver>>
          /\ pump' = pump \/ (pc' = "done" /\ pump' = "recv")
      BY <1>4 DEF Open, Create
    <2>2. pump = "idle" /\ heard = <<>> /\ chan = <<>> /\ seen = <<>> /\ held = "none"
      BY <2>1 DEF SocketFits
    <2>3. Arrived' /\ NoneFollows' /\ NoneFinal'
      <3>1. (<<>> \o <<>>) \o <<>> = <<>>
        OBVIOUS
      <3> QED BY <2>1, <2>2, <3>1, NoEvents DEF Arrived, NoneFollows, NoneFinal, Pending
    <2>4. SocketEventsArrive'
      BY <2>1, <2>2, <2>3, SocketPartsNext
    <2> QED BY <2>1, <2>2, <2>3, <2>4 DEF SocketFits, NoneFinal
  <1>5. CASE Collect
    <2>1. PICK f \in Frames : heard' = Append(heard, f)
      BY <1>5 DEF Collect
    <2>2. /\ pc = "collect" /\ pc' \in {"collect", "deliver", "done"}
          /\ UNCHANGED <<pump, held, chan, seen, receiver>>
      BY <1>5 DEF Collect
    <2>3. pump' = "idle" /\ heard' \in Seq(Frames)
      BY <2>1, <2>2, AppendType DEF SocketFits
    <2>4. SocketEventsArrive'
      BY <2>3, SocketPartsNext
    <2> QED BY <2>2, <2>3, <2>4 DEF SocketFits
  <1>6. CASE SocketSteps
    <2>1. UNCHANGED attemptVars /\ SocketNext
      BY <1>6 DEF SocketSteps
    <2> QED
      BY <2>1, FrameStep, SendStep, GivesUpStep, CloseStep, PollStep DEF SocketNext, PumpSteps
  <1> QED
    BY <1>1, <1>2, <1>3, <1>4, <1>5, <1>6 DEF Steps
-----------------------------------------------------------------------------
(* The invariant, and what it gives.                                         *)

LEMMA InitInv ==
  ASSUME Init
  PROVE  ExecutorInv
  <1>1. /\ req \in Requests /\ pc = "build" /\ body = req.body /\ verbatim = FALSE
        /\ hdrs = NoHeaders /\ record = None /\ wire = <<>> /\ answered = <<>>
        /\ captures = <<>> /\ answer = NoAnswer /\ result = NoResult
    BY DEF Init
  <1>2. ExecutorTypes
    <2>1. req.body \in Bodies /\ NoHeaders \in HeaderMaps
      BY <1>1, RequestFacts, NoHeadersFacts
    <2>2. NoAnswer.status = 0 /\ NoAnswer.names = {}
      BY DEF NoAnswer
    <2> HIDE DEF Bodies, HeaderMaps, Exchanges, ResponseNames
    <2>3. /\ wire \in Seq(Exchanges) /\ answered \in Seq(Nat)
          /\ captures \in Seq([status : Nat, sent : Bodies \cup {None}])
      BY <1>1
    <2>4. answer.status \in Nat /\ answer.names \subseteq ResponseNames
      BY <1>1, <2>2
    <2>5. pc \in Stages /\ verbatim \in BOOLEAN /\ record \in Bodies \cup {None}
      BY <1>1 DEF Stages
    <2> QED BY <1>1, <2>1, <2>3, <2>4, <2>5 DEF ExecutorTypes
  <1>3. BodiesFit
    BY <1>1 DEF BodiesFit, UpstreamsGetWhatTheyAccept
  <1>4. HeadersFit
    <2>1. ~result.ok
      BY <1>1 DEF NoResult
    <2> QED BY <1>1, <2>1 DEF HeadersFit, HeadersHaveTheirOwner
  <1>5. RecordsFit
    BY <1>1 DEF RecordsFit, CapturesTellTheExchange, Told
  <1>6. AnswersFit
    BY <1>1 DEF AnswersFit, RefusalsAreHeard
  <1>7. SocketFits
    BY <1>1 DEF Init, SocketIdle, SocketFits, SocketEventsArrive
  <1> QED
    BY <1>2, <1>3, <1>4, <1>5, <1>6, <1>7 DEF ExecutorInv

LEMMA StepInv ==
  ASSUME ExecutorInv, [Next]_vars
  PROVE  ExecutorInv'
  <1>0. ExecutorTypes /\ BodiesFit /\ HeadersFit /\ RecordsFit /\ AnswersFit /\ SocketFits
    BY DEF ExecutorInv
  <1>1. CASE Next
    <2>1. Steps
      BY <1>0, <1>1, NextCases
    <2> QED
      BY <1>0, <2>1, TypesStep, BodiesStep, HeadersStep, RecordsStep, AnswersStep, SocketStep
      DEF ExecutorInv
  <1>2. CASE UNCHANGED vars
    <2>1. UNCHANGED <<req, pc, body, verbatim, hdrs, record, wire, answered, captures,
                      answer, result>>
      BY <1>2 DEF vars, attemptVars
    <2>2. UNCHANGED <<sock, pump, held, chan, heard, seen, receiver>>
      BY <1>2 DEF vars, socketVars
    <2>3. ExecutorTypes'
      BY <1>0, <2>1 DEF ExecutorTypes
    <2>4. BodiesFit'
      BY <1>0, <2>1 DEF BodiesFit, Upgrades, Websocket, Codex, Fits, CodexFits,
                        CodexReads, CallsAsAllowed, FitForHttp, Resent, CodexAccepts,
                        DeepSeekUnderstands, UpstreamsGetWhatTheyAccept, AfterUpgrade, Accepted
    <2>5. HeadersFit'
      BY <1>0, <2>1 DEF HeadersFit, HeadersHaveTheirOwner, Undenied
    <2>6. RecordsFit'
      BY <1>0, <2>1 DEF RecordsFit, Told, Recorded, CapturesTellTheExchange, AfterUpgrade
    <2>7. AnswersFit'
      BY <1>0, <2>1 DEF AnswersFit, RefusalsAreHeard
    <2>8. SocketFits'
      BY <1>0, <2>1, <2>2 DEF SocketFits, SocketEventsArrive
    <2> QED BY <2>3, <2>4, <2>5, <2>6, <2>7, <2>8 DEF ExecutorInv
  <1> QED
    BY <1>1, <1>2

LEMMA AlwaysInv ==
  Spec => []ExecutorInv
  BY InitInv, StepInv, PTL DEF Spec

\* For every attempt, whatever its body, its target's profile and the deny lists
\* an operator added: an exchange carries a body its upstream's profile accepts,
\* but for the two ways in which the one after a refused upgrade falls short; its
\* credential and its model name are never the client's; and nothing the deny
\* lists name passes in either direction, but for Retry-After on its way back
\* (executors.rs:2131, 856; headers.rs).
THEOREM WhatGoesOutIsAcceptable == Spec => []RequestsAreAcceptable
  <1>1. ExecutorInv => RequestsAreAcceptable
    BY DEF ExecutorInv, BodiesFit, HeadersFit, RequestsAreAcceptable
  <1> QED BY <1>1, AlwaysInv, PTL

\* For every attempt the captured exchanges (spawn_capture) are those the upstream
\* answered, with their statuses and the bodies that were sent, across the upgrade
\* to a WebSocket and the way out of it; of the client's bytes sent after a refused
\* upgrade they show what prepare_body makes of them (executors.rs:2143).
THEOREM CapturesAreTrue == Spec => []CapturesTellTheExchange
  <1>1. ExecutorInv => CapturesTellTheExchange
    BY DEF ExecutorInv, RecordsFit
  <1> QED BY <1>1, AlwaysInv, PTL

\* Whatever an upstream refuses with, an upgrade too, its status reaches the
\* fallback loop; Retry-After does over HTTP and not from embeddings, a refused
\* upgrade loses it; and no error in a whole answer with status 200 is served as a
\* success (check_nonstream_error_body).
THEOREM RefusalsArrive == Spec => []RefusalsAreHeard
  <1>1. ExecutorInv => RefusalsAreHeard
    BY DEF ExecutorInv, AnswersFit
  <1> QED BY <1>1, AlwaysInv, PTL

\* For every size of the channel and every sequence of frames, a relay that
\* listens gets the events of the socket whole and in order, and nothing behind a
\* terminal one (drive_upstream_stream).
THEOREM SocketEventsAreWhole == Spec => []SocketEventsArrive
  <1>1. ExecutorInv => SocketEventsArrive
    BY DEF ExecutorInv, SocketFits
  <1> QED BY <1>1, AlwaysInv, PTL

=============================================================================
