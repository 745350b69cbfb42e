--------------------------- MODULE IngressProofs ----------------------------
(***************************************************************************)
(* What the handlers of the data plane guarantee for every set of inputs,  *)
(* key rows, tunables and permits: nobody is served what was never         *)
(* granted, and the handlers take only steps of module Accounting.         *)
(***************************************************************************)
EXTENDS Ingress, FiniteSetTheorems, TLAPS

Fields == {"life", "in", "todo", "key", "queued", "permit", "waiting", "answer", "hit"}

StageNames ==
    {"path", "permit", "limit", "auth", "decode", "policy", "cache", "route", "call"}

\* The stage a handler is at, as a position in its list of stages.
Stages(x) == Handler(x.in.end)
Stage(x) == Len(Stages(x)) - Len(x.todo) + 1

\* What is left to do is the list of the endpoint from that stage on.
AtStage(x) ==
    /\ x.todo \in Seq(StageNames)
    /\ Stage(x) \in 1..Len(Stages(x))
    /\ \A m \in 1..Len(x.todo) : x.todo[m] = Stages(x)[m + Stage(x) - 1]

\* The handler has been through a stage.
Past(x, stage) == \E j \in 1..(Stage(x) - 1) : Stages(x)[j] = stage

\* A handler that runs: once it knows its key, it was granted the request or the
\* key's models will refuse it; beyond the policy it was granted.
ScopeInv(x, q) ==
    /\ AtStage(x)
    /\ x.in \in Inputs
    /\ x.permit \in BOOLEAN
    /\ x.permit => Past(x, "permit")
    /\ x.hit = Absent
    /\ x.answer = 0
    /\ Past(x, "auth") /\ enforce_model_access(x.key, x.in.model) => q \in granted
    /\ Past(x, "policy") => q \in granted
    /\ Entitled(x.in, keys, tun) => q \in granted

RequestInv(q) ==
    /\ req[q].life \in {"out", "in", "answered", "left"}
    /\ req[q].life = "out" => req[q] = Out /\ log[q] = <<>>
    /\ req[q].life # "out" => DOMAIN req[q] = Fields
    /\ req[q].life = "in" => ScopeInv(req[q], q) /\ log[q] = <<>>

Inv ==
    /\ DOMAIN req = Requests /\ DOMAIN log = Requests
    /\ \A q \in Requests : RequestInv(q)
    /\ IsFiniteSet(Holders)
    /\ \A k \in DOMAIN cache : cache[k] = [model |-> k[1], words |-> k[2]]
    /\ ServedAsAllowed
-----------------------------------------------------------------------------
(* The lists of stages.                                                    *)

\* Every endpoint asks for one permit, knows the key before the policy, has been
\* through the policy before it answers, and ends with the call.
WellOrdered(h) ==
    /\ h \in Seq(StageNames)
    /\ Len(h) \in Nat \ {0}
    /\ h[Len(h)] = "call"
    /\ \A i \in 1..Len(h) :
          /\ h[i] = "policy" => \E j \in 1..(i - 1) : h[j] = "auth"
          /\ h[i] \in {"cache", "call"} => \E j \in 1..(i - 1) : h[j] = "policy"
          /\ h[i] = "permit" => ~\E j \in 1..(i - 1) : h[j] = "permit"

\* A list of n stages is ordered when its one policy stage p comes after the
\* stage a that knows the key and before the ones that answer.
OrderedAt(h, n, o, a, p) ==
    /\ h \in Seq(StageNames) /\ n \in Nat /\ Len(h) = n /\ h[n] = "call"
    /\ a \in 1..n /\ p \in 1..n /\ a < p /\ h[a] = "auth" /\ h[p] = "policy"
    /\ \A i \in 1..n : /\ h[i] = "policy" => i = p
                       /\ h[i] \in {"cache", "call"} => p < i
                       /\ h[i] = "permit" => i = o

LEMMA OrderedBy ==
    ASSUME NEW h, NEW n, NEW o, NEW a, NEW p, OrderedAt(h, n, o, a, p)
    PROVE  WellOrdered(h)
  <1> USE DEF OrderedAt
  <1> SUFFICES ASSUME NEW i \in 1..n
               PROVE  /\ h[i] = "policy" => \E j \in 1..(i - 1) : h[j] = "auth"
                      /\ h[i] \in {"cache", "call"} => \E j \in 1..(i - 1) : h[j] = "policy"
                      /\ h[i] = "permit" => ~\E j \in 1..(i - 1) : h[j] = "permit"
    BY DEF WellOrdered
  <1>1. h[i] = "policy" => a \in 1..(i - 1)
    OBVIOUS
  <1>2. h[i] \in {"cache", "call"} => p \in 1..(i - 1)
    OBVIOUS
  <1>3. \A j \in 1..(i - 1) : j \in 1..n /\ j # i
    OBVIOUS
  <1> QED
    BY <1>1, <1>2, <1>3

LEMMA HandlersAreOrdered ==
    ASSUME NEW end \in Endpoints
    PROVE  WellOrdered(Handler(end))
  <1>1. WellOrdered(handle_chat_completions)
    <2>1. handle_chat_completions \in Seq(StageNames)
      BY DEF handle_chat_completions, StageNames
    <2>2. OrderedAt(handle_chat_completions, 7, 1, 3, 5)
      BY <2>1 DEF OrderedAt, handle_chat_completions
    <2> QED
      BY <2>2, OrderedBy
  <1>2. WellOrdered(handle_messages)
    <2>1. handle_messages \in Seq(StageNames)
      BY DEF handle_messages, StageNames
    <2>2. OrderedAt(handle_messages, 6, 1, 2, 4)
      BY <2>1 DEF OrderedAt, handle_messages
    <2> QED
      BY <2>2, OrderedBy
  <1>3. WellOrdered(handle_embeddings)
    <2>1. handle_embeddings \in Seq(StageNames)
      BY DEF handle_embeddings, StageNames
    <2>2. OrderedAt(handle_embeddings, 7, 1, 2, 3)
      BY <2>1 DEF OrderedAt, handle_embeddings
    <2> QED
      BY <2>2, OrderedBy
  <1>4. WellOrdered(handle_responses)
    <2>1. handle_responses \in Seq(StageNames)
      BY DEF handle_responses, StageNames
    <2>2. OrderedAt(handle_responses, 7, 1, 3, 5)
      BY <2>1 DEF OrderedAt, handle_responses
    <2> QED
      BY <2>2, OrderedBy
  <1>5. WellOrdered(handle_gemini_generate)
    <2>1. handle_gemini_generate \in Seq(StageNames)
      BY DEF handle_gemini_generate, StageNames
    <2>2. OrderedAt(handle_gemini_generate, 8, 2, 4, 6)
      BY <2>1 DEF OrderedAt, handle_gemini_generate
    <2> QED
      BY <2>2, OrderedBy
  <1>6. WellOrdered(handle_images_generations)
    <2>1. handle_images_generations \in Seq(StageNames)
      BY DEF handle_images_generations, StageNames
    <2>2. OrderedAt(handle_images_generations, 7, 1, 3, 5)
      BY <2>1 DEF OrderedAt, handle_images_generations
    <2> QED
      BY <2>2, OrderedBy
  <1>7. WellOrdered(handle_images_edits)
    <2>1. handle_images_edits \in Seq(StageNames)
      BY DEF handle_images_edits, StageNames
    <2>2. OrderedAt(handle_images_edits, 6, 1, 3, 4)
      BY <2>1 DEF OrderedAt, handle_images_edits
    <2> QED
      BY <2>2, OrderedBy
  <1> QED
    BY <1>1, <1>2, <1>3, <1>4, <1>5, <1>6, <1>7 DEF Handler, Endpoints

LEMMA HeadIsTheStage ==
    ASSUME NEW x, AtStage(x), x.in \in Inputs
    PROVE  /\ WellOrdered(Stages(x))
           /\ Len(x.todo) \in Nat \ {0}
           /\ Head(x.todo) = Stages(x)[Stage(x)]
  <1>1. WellOrdered(Stages(x))
    BY InputsAssumption, HandlersAreOrdered DEF Stages
  <1>2. Len(x.todo) \in Nat \ {0}
    BY <1>1 DEF AtStage, Stage, WellOrdered
  <1>3. x.todo[1] = Stages(x)[Stage(x)]
    <2>1. 1 \in 1..Len(x.todo) /\ 1 + Stage(x) - 1 = Stage(x)
      BY <1>1, <1>2 DEF AtStage, WellOrdered
    <2> QED
      BY <2>1 DEF AtStage
  <1> QED
    BY <1>1, <1>2, <1>3 DEF AtStage

\* Dropping the first stage moves on by one.
LEMMA TailMovesOn ==
    ASSUME NEW x, AtStage(x), x.in \in Inputs, Head(x.todo) # "call",
           NEW y, y.in = x.in, y.todo = Tail(x.todo)
    PROVE  /\ AtStage(y)
           /\ Stage(y) = Stage(x) + 1
           /\ \A stage : Past(y, stage) => Past(x, stage) \/ Head(x.todo) = stage
           /\ \A stage : Past(x, stage) => Past(y, stage)
           /\ Past(y, Head(x.todo))
  <1>1. /\ WellOrdered(Stages(x)) /\ Stages(y) = Stages(x)
        /\ Len(x.todo) \in Nat \ {0} /\ Head(x.todo) = Stages(x)[Stage(x)]
        /\ x.todo \in Seq(StageNames)
    BY HeadIsTheStage DEF Stages, AtStage
  <1> DEFINE h == Stages(x)
             n == Len(h)
             i == Stage(x)
  <1>2. n \in Nat /\ i \in 1..n /\ i # n
    BY <1>1 DEF WellOrdered, AtStage
  <1>3. /\ y.todo \in Seq(StageNames) /\ Len(y.todo) = Len(x.todo) - 1
        /\ \A m \in 1..Len(y.todo) : y.todo[m] = x.todo[m + 1]
    BY <1>1
  <1>4. Stage(y) = i + 1
    <2>1. Stage(y) = n - Len(y.todo) + 1 /\ i = n - Len(x.todo) + 1
      BY <1>1 DEF Stage
    <2> HIDE DEF n, i
    <2> QED
      BY <1>1, <1>2, <1>3, <2>1
  <1>5. \A m \in 1..Len(y.todo) : y.todo[m] = h[m + Stage(y) - 1]
    <2> SUFFICES ASSUME NEW m \in 1..Len(y.todo) PROVE y.todo[m] = h[m + Stage(y) - 1]
      OBVIOUS
    <2>1. m + 1 \in 1..Len(x.todo) /\ (m + 1) + i - 1 = m + Stage(y) - 1
      <3> HIDE DEF i, n
      <3> QED
        BY <1>1, <1>2, <1>3, <1>4
    <2>2. x.todo[m + 1] = h[(m + 1) + i - 1]
      BY <2>1 DEF AtStage
    <2> QED
      BY <1>3, <2>1, <2>2
  <1> HIDE DEF h, n, i
  <1>6. AtStage(y)
    BY <1>1, <1>2, <1>3, <1>4, <1>5 DEF AtStage, h, n
  <1>7. \A j \in 1..(Stage(y) - 1) : j = i \/ j \in 1..(i - 1)
    BY <1>2, <1>4
  <1>8. \A j \in 1..(i - 1) : j \in 1..(Stage(y) - 1)
    BY <1>2, <1>4
  <1>9. i \in 1..(Stage(y) - 1)
    BY <1>2, <1>4
  <1> QED
    BY <1>1, <1>4, <1>6, <1>7, <1>8, <1>9 DEF Past, i
-----------------------------------------------------------------------------
(* What a step does to the invariant.                                      *)

\* A handler that drops a stage stays in order, if it was granted the request
\* when that stage is the policy.
LEMMA ScopeAdvances ==
    ASSUME NEW q, NEW x, ScopeInv(x, q), Head(x.todo) \notin {"auth", "call"},
           Head(x.todo) = "policy" => q \in granted,
           NEW y, y.in = x.in, y.key = x.key, y.hit = x.hit, y.answer = x.answer,
           y.todo = Tail(x.todo),
           y.permit = x.permit \/ (y.permit = TRUE /\ Head(x.todo) = "permit")
    PROVE  ScopeInv(y, q)
  <1>1. /\ AtStage(y)
        /\ \A stage : Past(y, stage) => Past(x, stage) \/ Head(x.todo) = stage
        /\ \A stage : Past(x, stage) => Past(y, stage)
        /\ Past(y, Head(x.todo))
    BY TailMovesOn DEF ScopeInv
  <1>2. y.permit \in BOOLEAN /\ (y.permit => Past(y, "permit"))
    BY <1>1 DEF ScopeInv
  <1>3. Past(y, "auth") /\ enforce_model_access(y.key, y.in.model) => q \in granted
    BY <1>1 DEF ScopeInv
  <1>4. Past(y, "policy") => q \in granted
    BY <1>1 DEF ScopeInv
  <1> QED
    BY <1>1, <1>2, <1>3, <1>4 DEF ScopeInv

\* What a handler has been through when it comes to a stage.
LEMMA StagesBefore ==
    ASSUME NEW q, NEW x, ScopeInv(x, q)
    PROVE  /\ Head(x.todo) = "policy" => Past(x, "auth")
           /\ Head(x.todo) \in {"cache", "call"} => Past(x, "policy")
           /\ Head(x.todo) = "permit" => ~Past(x, "permit")
  <1>1. AtStage(x) /\ x.in \in Inputs
    BY DEF ScopeInv
  <1>2. WellOrdered(Stages(x)) /\ Head(x.todo) = Stages(x)[Stage(x)]
    BY <1>1, HeadIsTheStage
  <1>3. Stage(x) \in 1..Len(Stages(x))
    BY <1>1 DEF AtStage
  <1> QED
    BY <1>2, <1>3 DEF WellOrdered, Past

\* A request nothing happens to keeps its invariant.
LEMMA OthersKeep ==
    ASSUME Inv, NEW s \in Requests, req'[s] = req[s], log'[s] = log[s],
           granted \subseteq granted', UNCHANGED <<keys, tun>>
    PROVE  RequestInv(s)'
  <1>1. RequestInv(s)
    BY DEF Inv
  <1> QED
    BY <1>1, ZenonT(60) DEF RequestInv, ScopeInv, AtStage, Past, Stage, Stages, Entitled,
               enforce_model_access, Out

LEMMA HandlerMoves ==
    ASSUME Inv, NEW q \in Requests, req[q].life = "in",
           NEW y, req' = [req EXCEPT ![q] = y], DOMAIN y = Fields, y.life = "in",
           ScopeInv(y, q), UNCHANGED <<log, cache, granted, keys, tun>>
    PROVE  Inv'
  <1>1. /\ DOMAIN req' = Requests /\ DOMAIN log' = Requests /\ req'[q] = y
        /\ \A s \in Requests : s # q => req'[s] = req[s]
    BY DEF Inv
  <1>2. RequestInv(q)'
    <2>1. log[q] = <<>>
      BY DEF Inv, RequestInv
    <2> QED
      BY <1>1, <2>1 DEF RequestInv, ScopeInv, AtStage, Past, Stage, Stages, Entitled,
                        enforce_model_access
  <1>3. \A s \in Requests : RequestInv(s)'
    BY <1>1, <1>2, OthersKeep
  <1>4. IsFiniteSet(Holders')
    <2>1. IsFiniteSet(Holders \cup {q})
      BY FS_AddElement DEF Inv
    <2>2. Holders' \subseteq Holders \cup {q}
      BY <1>1 DEF Holders
    <2> QED
      BY <2>1, <2>2, FS_Subset
  <1>5. ServedAsAllowed'
    BY <1>1 DEF Inv, ServedAsAllowed, AccessWasGranted, HitsAreTheirs
  <1> QED
    BY <1>1, <1>3, <1>4, <1>5 DEF Inv

\* The end of a handler: it keeps no permit, and what it serves was granted.
LEMMA HandlerEnds ==
    ASSUME Inv, NEW q \in Requests, req[q].life = "in",
           NEW y, req' = [req EXCEPT ![q] = y], DOMAIN y = Fields,
           y.life = "left" \/ (y.life = "answered" /\ (y.answer = 200 => q \in granted)),
           y.in = req[q].in,
           y.hit # Absent => y.hit = [model |-> y.in.model, words |-> y.in.words],
           DOMAIN log' = Requests, \A s \in Requests : s # q => log'[s] = log[s],
           UNCHANGED <<granted, keys, tun>>,
           \A k \in DOMAIN cache' : cache'[k] = [model |-> k[1], words |-> k[2]]
    PROVE  Inv'
  <1>1. /\ DOMAIN req' = Requests /\ req'[q] = y
        /\ \A s \in Requests : s # q => req'[s] = req[s]
    BY DEF Inv
  <1>2. RequestInv(q)'
    BY <1>1 DEF RequestInv
  <1>3. \A s \in Requests : RequestInv(s)'
    BY <1>1, <1>2, OthersKeep
  <1>4. IsFiniteSet(Holders')
    <2>1. Holders' \subseteq Holders
      BY <1>1 DEF Holders
    <2> QED
      BY <2>1, FS_Subset DEF Inv
  <1>5. ServedAsAllowed'
    BY <1>1 DEF Inv, ServedAsAllowed, AccessWasGranted, HitsAreTheirs
  <1> QED
    BY <1>1, <1>3, <1>4, <1>5 DEF Inv

LEMMA RepliesKeepsInv ==
    ASSUME Inv, NEW q \in Requests, req[q].life = "in", NEW s, Replies(q, s),
           s = 200 => q \in granted,
           UNCHANGED <<granted, keys, tun>>,
           \A k \in DOMAIN cache' : cache'[k] = [model |-> k[1], words |-> k[2]]
    PROVE  Inv'
  <1>1. DOMAIN req = Requests /\ DOMAIN req[q] = Fields /\ req[q].hit = Absent /\ DOMAIN log = Requests
    BY DEF Inv, RequestInv, ScopeInv
  <1> DEFINE y == [req[q] EXCEPT !.life = "answered", !.answer = s, !.permit = FALSE]
  <1>2. req' = [req EXCEPT ![q] = y]
    BY <1>1 DEF Replies
  <1>3. /\ DOMAIN y = Fields /\ y.life = "answered" /\ y.answer = s
        /\ y.in = req[q].in /\ y.hit = Absent
    BY <1>1 DEF Fields
  <1>4. DOMAIN log' = Requests /\ \A t \in Requests : t # q => log'[t] = log[t]
    BY <1>1 DEF Replies
  <1> HIDE DEF y
  <1> QED
    BY <1>2, <1>3, <1>4, HandlerEnds

LEMMA GoesOnKeepsInv ==
    ASSUME Inv, NEW q \in Requests, req[q].life = "in", GoesOn(q),
           Head(req[q].todo) \notin {"auth", "call"},
           Head(req[q].todo) = "policy" => q \in granted,
           UNCHANGED <<cache, granted, keys, tun>>
    PROVE  Inv'
  <1>1. DOMAIN req = Requests /\ DOMAIN req[q] = Fields /\ ScopeInv(req[q], q)
    BY DEF Inv, RequestInv
  <1> DEFINE y == [req[q] EXCEPT !.todo = Tail(req[q].todo)]
  <1>2. req' = [req EXCEPT ![q] = y]
    BY <1>1 DEF GoesOn
  <1>3. /\ DOMAIN y = Fields /\ y.life = "in" /\ y.in = req[q].in /\ y.key = req[q].key
        /\ y.hit = req[q].hit /\ y.answer = req[q].answer
        /\ y.todo = Tail(req[q].todo) /\ y.permit = req[q].permit
    BY <1>1 DEF Fields
  <1> HIDE DEF y
  <1>4. ScopeInv(y, q)
    BY <1>1, <1>3, ScopeAdvances
  <1> QED
    BY <1>2, <1>3, <1>4, HandlerMoves DEF GoesOn
-----------------------------------------------------------------------------
(* The actions.                                                            *)

LEMMA CacheStays ==
    ASSUME Inv, UNCHANGED cache
    PROVE  \A k \in DOMAIN cache' : cache'[k] = [model |-> k[1], words |-> k[2]]
  BY DEF Inv

\* The stages that only say yes or no.
LEMMA ChecksKeepInv ==
    ASSUME Inv, NEW q \in Requests,
           split_gemini_capture(q) \/ enforce_body_limit(q) \/ decode_request(q)
    PROVE  Inv'
  <1>1. PICK s \in {400, 413} :
          /\ req[q].life = "in" /\ Head(req[q].todo) \in {"path", "limit", "decode"}
          /\ Replies(q, s) \/ GoesOn(q)
          /\ UNCHANGED <<cache, granted, keys, tun>>
    BY DEF split_gemini_capture, enforce_body_limit, decode_request, In, admin
  <1>2. CASE Replies(q, s)
    <2>1. s # 200
      OBVIOUS
    <2> QED
      BY <1>1, <1>2, <2>1, CacheStays, RepliesKeepsInv
  <1>3. CASE GoesOn(q)
    BY <1>1, <1>3, GoesOnKeepsInv
  <1> QED
    BY <1>1, <1>2, <1>3

LEMMA PermitKeepsInv ==
    ASSUME Inv, NEW q \in Requests, acquire_permit(q) \/ PermitGranted(q) \/ PermitTimeout(q)
    PROVE  Inv'
  <1>1. /\ req[q].life = "in" /\ Head(req[q].todo) = "permit"
        /\ UNCHANGED <<cache, granted, keys, tun>>
    BY DEF acquire_permit, PermitGranted, PermitTimeout, In, admin
  <1>2. DOMAIN req = Requests /\ DOMAIN req[q] = Fields /\ ScopeInv(req[q], q)
    BY <1>1 DEF Inv, RequestInv
  <1>3. CASE Replies(q, 503)
    BY <1>1, <1>3, CacheStays, RepliesKeepsInv, 503 # 200
  <1>4. CASE req' = [req EXCEPT ![q].queued = TRUE] /\ UNCHANGED log
    <2> DEFINE y == [req[q] EXCEPT !.queued = TRUE]
    <2>1. req' = [req EXCEPT ![q] = y]
      BY <1>2, <1>4
    <2>2. /\ DOMAIN y = Fields /\ y.life = "in" /\ y.in = req[q].in /\ y.key = req[q].key
          /\ y.hit = req[q].hit /\ y.answer = req[q].answer
          /\ y.todo = req[q].todo /\ y.permit = req[q].permit
      BY <1>1, <1>2 DEF Fields
    <2> HIDE DEF y
    <2>3. ScopeInv(y, q)
      BY <1>2, <2>2, ZenonT(60) DEF ScopeInv, AtStage, Past, Stage, Stages
    <2> QED
      BY <1>1, <1>4, <2>1, <2>2, <2>3, HandlerMoves
  <1>5. CASE PermitGranted(q)
    <2> DEFINE y == [req[q] EXCEPT !.permit = TRUE, !.todo = Tail(req[q].todo)]
    <2>1. req' = [req EXCEPT ![q] = y] /\ UNCHANGED log
      BY <1>2, <1>5 DEF PermitGranted
    <2>2. /\ DOMAIN y = Fields /\ y.life = "in" /\ y.in = req[q].in /\ y.key = req[q].key
          /\ y.hit = req[q].hit /\ y.answer = req[q].answer
          /\ y.todo = Tail(req[q].todo) /\ y.permit = TRUE
      BY <1>1, <1>2 DEF Fields
    <2> HIDE DEF y
    <2>3. ScopeInv(y, q)
      BY <1>1, <1>2, <2>2, ScopeAdvances
    <2> QED
      BY <1>1, <2>1, <2>2, <2>3, HandlerMoves
  <1> QED
    BY <1>3, <1>4, <1>5 DEF acquire_permit, PermitTimeout

\* A key that is taken for active was found active in the rows: a request whose
\* model it may use is entitled at that moment.
LEMMA ActiveKeyEntitles ==
    ASSUME NEW in, NEW failed \in BOOLEAN, Lookup(in, failed) = "active",
           enforce_model_access(Resolved(in, "active"), in.model)
    PROVE  Entitled(in, keys, tun)
  <1> DEFINE rows == find_api_key_by_secret(in.cred)
             k == CHOOSE k \in rows : TRUE
  <1>1. in.cred # NoCred /\ rows # {} /\ ~\E j \in rows : ~keys[j].active
    BY DEF Lookup
  <1>2. k \in rows
    BY <1>1
  <1>3. k \in KeyIds /\ keys[k] # Absent /\ keys[k].hash = in.cred /\ keys[k].active
    BY <1>1, <1>2 DEF find_api_key_by_secret
  <1>4. Resolved(in, "active").allow = keys[k].allow
    BY DEF Resolved
  <1> HIDE DEF k
  <1>5. keys[k].allow = Anyone \/ in.model \in keys[k].allow
    BY <1>4 DEF enforce_model_access
  <1> QED
    BY <1>3, <1>5 DEF Entitled

LEMMA AuthKeepsInv ==
    ASSUME Inv, NEW q \in Requests, resolve_api_key(q)
    PROVE  Inv'
  <1>1. /\ req[q].life = "in" /\ Head(req[q].todo) = "auth"
        /\ UNCHANGED <<cache, granted, keys, tun>>
    BY DEF resolve_api_key, In, admin
  <1>2. DOMAIN req = Requests /\ DOMAIN req[q] = Fields /\ ScopeInv(req[q], q)
    BY <1>1 DEF Inv, RequestInv
  <1>3. PICK failed \in BOOLEAN :
          LET outcome == Lookup(req[q].in, failed)
              status == enforce_auth(outcome)
          IN  IF status # 200 THEN Replies(q, status)
              ELSE /\ req' = [req EXCEPT ![q].key = Resolved(req[q].in, outcome),
                                         ![q].todo = Tail(@)]
                   /\ UNCHANGED log
    BY DEF resolve_api_key
  <1> DEFINE outcome == Lookup(req[q].in, failed)
             status == enforce_auth(outcome)
             k == Resolved(req[q].in, outcome)
  <1>4. CASE status # 200
    <2>1. Replies(q, status)
      BY <1>3, <1>4
    <2> HIDE DEF status
    <2> QED
      BY <1>1, <1>4, <2>1, CacheStays, RepliesKeepsInv
  <1>5. CASE status = 200
    <2> DEFINE y == [req[q] EXCEPT !.key = k, !.todo = Tail(req[q].todo)]
    <2>1. req' = [req EXCEPT ![q] = y] /\ UNCHANGED log
      BY <1>2, <1>3, <1>5
    <2>2. /\ DOMAIN y = Fields /\ y.life = "in" /\ y.in = req[q].in /\ y.key = k
          /\ y.hit = req[q].hit /\ y.answer = req[q].answer
          /\ y.todo = Tail(req[q].todo) /\ y.permit = req[q].permit
      BY <1>1, <1>2 DEF Fields
    <2>3. ~tun.require \/ outcome = "active"
      BY <1>5 DEF enforce_auth
    <2>4. enforce_model_access(k, req[q].in.model) => Entitled(req[q].in, keys, tun)
      BY <2>3, ActiveKeyEntitles DEF Entitled
    <2> HIDE DEF y, k
    <2>5. /\ AtStage(y)
          /\ \A stage : Past(y, stage) => Past(req[q], stage) \/ "auth" = stage
          /\ \A stage : Past(req[q], stage) => Past(y, stage)
      BY <1>1, <1>2, <2>2, TailMovesOn DEF ScopeInv
    <2>6. Past(y, "policy") => q \in granted
      BY <1>2, <2>5 DEF ScopeInv
    <2>7. enforce_model_access(y.key, y.in.model) => q \in granted
      BY <1>2, <2>2, <2>4 DEF ScopeInv
    <2>8. ScopeInv(y, q)
      BY <1>2, <2>2, <2>5, <2>6, <2>7 DEF ScopeInv
    <2> QED
      BY <1>1, <2>1, <2>2, <2>8, HandlerMoves
  <1> QED
    BY <1>4, <1>5

\* The policy lets a request on only when the models of its key do.
LEMMA PolicyKeepsInv ==
    ASSUME Inv, NEW q \in Requests, enforce_api_key_policy(q)
    PROVE  Inv'
  <1>1. /\ req[q].life = "in" /\ Head(req[q].todo) = "policy"
        /\ UNCHANGED <<cache, granted, keys, tun>>
    BY DEF enforce_api_key_policy, In, admin
  <1>2. ScopeInv(req[q], q)
    BY <1>1 DEF Inv, RequestInv
  <1>3. CASE Replies(q, 429) \/ Replies(q, 403)
    BY <1>1, <1>3, CacheStays, RepliesKeepsInv, 429 # 200, 403 # 200
  <1>4. CASE GoesOn(q) /\ enforce_model_access(req[q].key, req[q].in.model)
    <2>1. Past(req[q], "auth")
      BY <1>1, <1>2, StagesBefore
    <2>2. q \in granted
      BY <1>2, <1>4, <2>1 DEF ScopeInv
    <2> QED
      BY <1>1, <1>4, <2>2, GoesOnKeepsInv
  <1> QED
    BY <1>3, <1>4 DEF enforce_api_key_policy

\* Where a handler answers 200 it has been through the policy.
LEMMA AnswersAreGranted ==
    ASSUME Inv, NEW q \in Requests, req[q].life = "in",
           Head(req[q].todo) \in {"cache", "call"}
    PROVE  q \in granted
  <1>1. ScopeInv(req[q], q)
    BY DEF Inv, RequestInv
  <1>2. Past(req[q], "policy")
    BY <1>1, StagesBefore
  <1> QED
    BY <1>1, <1>2 DEF ScopeInv

LEMMA CacheKeepsInv ==
    ASSUME Inv, NEW q \in Requests, embedding_cache_lookup(q)
    PROVE  Inv'
  <1> DEFINE k == CacheKey(req[q].in)
  <1>1. /\ req[q].life = "in" /\ Head(req[q].todo) = "cache"
        /\ UNCHANGED <<cache, granted, keys, tun>>
    BY DEF embedding_cache_lookup, In, admin
  <1>2. /\ DOMAIN req = Requests /\ DOMAIN req[q] = Fields /\ ScopeInv(req[q], q)
        /\ DOMAIN log = Requests
    BY <1>1 DEF Inv, RequestInv
  <1>3. CASE GoesOn(q)
    BY <1>1, <1>3, GoesOnKeepsInv
  <1>4. CASE /\ k \in DOMAIN cache
             /\ req' = [req EXCEPT ![q].life = "answered", ![q].answer = 200,
                                   ![q].permit = FALSE, ![q].hit = cache[k]]
             /\ log' = [log EXCEPT ![q] = Append(@, 200)]
    <2> DEFINE y == [req[q] EXCEPT !.life = "answered", !.answer = 200,
                                   !.permit = FALSE, !.hit = cache[k]]
    <2>1. req' = [req EXCEPT ![q] = y]
      BY <1>2, <1>4, ZenonT(60)
    <2>2. cache[k] = [model |-> req[q].in.model, words |-> req[q].in.words]
      BY <1>4 DEF Inv, CacheKey
    <2>3. /\ DOMAIN y = Fields /\ y.life = "answered" /\ y.in = req[q].in
          /\ y.hit = [model |-> y.in.model, words |-> y.in.words]
      BY <1>2, <2>2 DEF Fields
    <2>4. DOMAIN log' = Requests /\ \A t \in Requests : t # q => log'[t] = log[t]
      BY <1>2, <1>4
    <2> HIDE DEF y
    <2> QED
      BY <1>1, <2>1, <2>3, <2>4, AnswersAreGranted, CacheStays, HandlerEnds
  <1> QED
    BY <1>3, <1>4 DEF embedding_cache_lookup

LEMMA RouteKeepsInv ==
    ASSUME Inv, NEW q \in Requests, RouteFound(q)
    PROVE  Inv'
  <1>1. /\ req[q].life = "in" /\ Head(req[q].todo) = "route"
        /\ UNCHANGED <<cache, granted, keys, tun>>
    BY DEF RouteFound, In, admin
  <1>2. DOMAIN req = Requests /\ DOMAIN req[q] = Fields /\ ScopeInv(req[q], q)
    BY <1>1 DEF Inv, RequestInv
  <1>3. CASE Replies(q, 404)
    BY <1>1, <1>3, CacheStays, RepliesKeepsInv, 404 # 200
  <1>4. CASE req' = [req EXCEPT ![q].waiting = TRUE, ![q].todo = Tail(@)] /\ UNCHANGED log
    <2> DEFINE y == [req[q] EXCEPT !.waiting = TRUE, !.todo = Tail(req[q].todo)]
    <2>1. req' = [req EXCEPT ![q] = y]
      BY <1>2, <1>4
    <2>2. /\ DOMAIN y = Fields /\ y.life = "in" /\ y.in = req[q].in /\ y.key = req[q].key
          /\ y.hit = req[q].hit /\ y.answer = req[q].answer
          /\ y.todo = Tail(req[q].todo) /\ y.permit = req[q].permit
      BY <1>1, <1>2 DEF Fields
    <2> HIDE DEF y
    <2>3. ScopeInv(y, q)
      BY <1>1, <1>2, <2>2, ScopeAdvances
    <2> QED
      BY <1>1, <1>4, <2>1, <2>2, <2>3, HandlerMoves
  <1> QED
    BY <1>3, <1>4 DEF RouteFound

LEMMA CallKeepsInv ==
    ASSUME Inv, NEW q \in Requests, UpstreamEnds(q)
    PROVE  Inv'
  <1>1. /\ req[q].life = "in" /\ Head(req[q].todo) = "call"
        /\ UNCHANGED <<granted, keys, tun>>
    BY DEF UpstreamEnds, In, admin
  <1>2. PICK s \in {200, 502} : Replies(q, s)
    BY DEF UpstreamEnds
  <1>3. \A k \in DOMAIN cache' : cache'[k] = [model |-> k[1], words |-> k[2]]
    <2>1. CASE UNCHANGED cache
      BY <2>1, CacheStays
    <2>2. CASE cache' = [k \in DOMAIN cache \cup {CacheKey(req[q].in)} |->
                           IF k = CacheKey(req[q].in)
                           THEN [model |-> req[q].in.model, words |-> req[q].in.words]
                           ELSE cache[k]]
      BY <2>2 DEF Inv, CacheKey
    <2> QED
      BY <2>1, <2>2 DEF UpstreamEnds
  <1> QED
    BY <1>1, <1>2, <1>3, AnswersAreGranted, RepliesKeepsInv

LEMMA DroppedKeepsInv ==
    ASSUME Inv, NEW q \in Requests, Dropped(q)
    PROVE  Inv'
  <1>1. req[q].life = "in" /\ UNCHANGED <<cache, granted, keys, tun>>
    BY DEF Dropped, admin
  <1>2. /\ DOMAIN req = Requests /\ DOMAIN req[q] = Fields /\ req[q].hit = Absent
        /\ DOMAIN log = Requests
    BY <1>1 DEF Inv, RequestInv, ScopeInv
  <1> DEFINE y == [req[q] EXCEPT !.life = "left", !.permit = FALSE]
  <1>3. req' = [req EXCEPT ![q] = y]
    BY <1>2 DEF Dropped
  <1>4. DOMAIN y = Fields /\ y.life = "left" /\ y.in = req[q].in /\ y.hit = Absent
    BY <1>2 DEF Fields
  <1>5. DOMAIN log' = Requests /\ \A t \in Requests : t # q => log'[t] = log[t]
    BY <1>2 DEF Dropped
  <1> HIDE DEF y
  <1> QED
    BY <1>1, <1>3, <1>4, <1>5, CacheStays, HandlerEnds

LEMMA ArriveKeepsInv ==
    ASSUME Inv, NEW q \in Requests, NEW in \in Inputs, Arrive(q, in)
    PROVE  Inv'
  <1> DEFINE y == NewScope(in)
             h == Handler(in.end)
  <1>1. /\ DOMAIN req = Requests /\ DOMAIN req' = Requests /\ DOMAIN log = Requests
        /\ req'[q] = y /\ \A s \in Requests : s # q => req'[s] = req[s]
        /\ UNCHANGED <<log, cache, keys, tun>> /\ granted \subseteq granted'
        /\ req[q].life = "out" /\ log[q] = <<>>
    BY DEF Arrive, admin, Inv, RequestInv
  <1>2. /\ DOMAIN y = Fields /\ y.life = "in" /\ y.in = in /\ y.todo = h
        /\ y.permit = FALSE /\ y.hit = Absent /\ y.answer = 0
    BY DEF NewScope, Fields
  <1>3. WellOrdered(h)
    BY InputsAssumption, HandlersAreOrdered
  <1> HIDE DEF y, h
  <1>4. Stages(y) = h /\ Stage(y) = 1
    BY <1>2, <1>3 DEF Stages, Stage, WellOrdered, h
  <1>5. AtStage(y)
    <2>1. \A m \in 1..Len(h) : m + 1 - 1 = m
      OBVIOUS
    <2> QED
      BY <1>2, <1>3, <1>4, <2>1 DEF AtStage, WellOrdered
  <1>6. \A stage : ~Past(y, stage)
    BY <1>4 DEF Past
  <1>7. Entitled(in, keys, tun) => q \in granted'
    BY DEF Arrive
  <1>8. RequestInv(q)'
    BY <1>1, <1>2, <1>5, <1>6, <1>7
       DEF RequestInv, ScopeInv, AtStage, Past, Stage, Stages, Entitled
  <1>9. \A s \in Requests : RequestInv(s)'
    BY <1>1, <1>8, OthersKeep
  <1>10. Holders' = Holders
    BY <1>1, <1>2 DEF Holders
  <1>11. ServedAsAllowed'
    BY <1>1, <1>2 DEF Inv, ServedAsAllowed, AccessWasGranted, HitsAreTheirs
  <1> QED
    BY <1>1, <1>9, <1>10, <1>11 DEF Inv

LEMMA EvictKeepsInv ==
    ASSUME Inv, NEW k \in DOMAIN cache, Evict(k)
    PROVE  Inv'
  <1>1. UNCHANGED <<req, log, granted, keys, tun>>
    BY DEF Evict, admin
  <1>2. \A s \in Requests : RequestInv(s)'
    BY <1>1, OthersKeep
  <1>3. \A j \in DOMAIN cache' : cache'[j] = [model |-> j[1], words |-> j[2]]
    BY DEF Inv, Evict
  <1> QED
    BY <1>1, <1>2, <1>3 DEF Inv, Holders, ServedAsAllowed, AccessWasGranted, HitsAreTheirs

\* A change of the rows or of the tunables grants what it entitles to, so a
\* handler that runs is never entitled without having been granted.
LEMMA ChangesKeepInv ==
    ASSUME Inv, UNCHANGED <<req, log, cache>>, Grants(keys', tun')
    PROVE  Inv'
  <1>1. granted \subseteq granted'
    BY DEF Grants
  <1>2. ASSUME NEW s \in Requests PROVE RequestInv(s)'
    <2>1. RequestInv(s)
      BY DEF Inv
    <2>2. CASE req[s].life = "in"
      <3>1. ScopeInv(req[s], s)
        BY <2>1, <2>2 DEF RequestInv
      <3>2. Entitled(req[s].in, keys', tun') => s \in granted'
        BY <2>2 DEF Grants
      <3>3. ScopeInv(req[s], s)'
        BY <1>1, <3>1, <3>2 DEF ScopeInv, AtStage, Past, Stage, Stages, Entitled,
                                enforce_model_access
      <3> QED
        BY <2>1, <2>2, <3>3 DEF RequestInv
    <2>3. CASE req[s].life # "in"
      BY <2>1, <2>3 DEF RequestInv, Out
    <2> QED
      BY <2>2, <2>3
  <1> QED
    BY <1>1, <1>2 DEF Inv, Holders, ServedAsAllowed, AccessWasGranted, HitsAreTheirs

LEMMA EditKeepsInv ==
    ASSUME Inv, NEW e \in KeyEdits, EditKey(e)
    PROVE  Inv'
  <1>1. PICK id, row : WriteKey(id, row)
    BY DEF EditKey, create_api_key, delete_api_key, disable_api_key, update_api_key_quota,
           update_api_key_model_access, import_api_key
  <1>2. UNCHANGED <<req, log, cache, tun>> /\ Grants(keys', tun)
    BY <1>1 DEF WriteKey
  <1> QED
    BY <1>2, ChangesKeepInv

LEMMA ReloadKeepsInv ==
    ASSUME Inv, NEW t \in Tunables, Reload(t)
    PROVE  Inv'
  <1>1. UNCHANGED <<req, log, cache, keys>> /\ tun' = t /\ Grants(keys, t)
    BY DEF Reload
  <1> QED
    BY <1>1, ChangesKeepInv
-----------------------------------------------------------------------------
LEMMA InitInv == Init => Inv
  <1> SUFFICES ASSUME Init PROVE Inv
    OBVIOUS
  <1>1. /\ DOMAIN req = Requests /\ DOMAIN log = Requests
        /\ \A q \in Requests : req[q] = Out /\ req[q].life = "out" /\ log[q] = <<>>
    BY DEF Init, Out
  <1>2. Holders = {}
    BY <1>1 DEF Holders
  <1> QED
    BY <1>1, <1>2, FS_EmptySet
       DEF Init, Inv, RequestInv, ServedAsAllowed, AccessWasGranted, HitsAreTheirs

LEMMA NextKeepsInv == Inv /\ [Next]_vars => Inv'
  <1> SUFFICES ASSUME Inv, [Next]_vars PROVE Inv'
    OBVIOUS
  <1>1. ASSUME NEW q \in Requests, Step(q) PROVE Inv'
    BY <1>1, ChecksKeepInv, PermitKeepsInv, AuthKeepsInv, PolicyKeepsInv, CacheKeepsInv,
       RouteKeepsInv, CallKeepsInv DEF Step
  <1>2. CASE UNCHANGED vars
    <2>1. UNCHANGED <<req, log, cache, granted, keys, tun>>
      BY <1>2 DEF vars
    <2>2. \A s \in Requests : RequestInv(s)'
      BY <2>1, OthersKeep
    <2> QED
      BY <2>1, <2>2 DEF Inv, Holders, ServedAsAllowed, AccessWasGranted, HitsAreTheirs
  <1> QED
    BY <1>1, <1>2, DroppedKeepsInv, ArriveKeepsInv, EvictKeepsInv, EditKeepsInv, ReloadKeepsInv
       DEF Next

\* The handlers' inductive invariant holds in every reachable state, whatever rows
\* and settings change between their stages.
THEOREM InvHolds == Spec => []Inv
  BY InitInv, NextKeepsInv, PTL DEF Spec

\* Whatever the endpoints, rows, settings and their changes, a request that a
\* handler answers with 200 was allowed at some moment it ran, and a hit of the
\* embedding cache is the answer to the same model and input.
THEOREM ServedIsAllowed == Spec => []ServedAsAllowed
  <1>1. Inv => ServedAsAllowed
    BY DEF Inv
  <1> QED
    BY <1>1, InvHolds, PTL
-----------------------------------------------------------------------------
(* The refinement of module Accounting.                                    *)

Life == [q \in Requests |-> req[q].life]
Answers == [q \in Requests |-> IF req[q].life = "out" THEN 0 ELSE req[q].answer]

\* A step inside a handler that takes no permit is no step of the accounting.
LEMMA InsideIsStutter ==
    ASSUME Inv, UNCHANGED log,
           \A q \in Requests : /\ req'[q].life = req[q].life
                               /\ req[q].life # "out" => req'[q].answer = req[q].answer
                               /\ req[q].life = "in" => req'[q].permit = req[q].permit
    PROVE  UNCHANGED Accounts!vars
  <1>1. Life' = Life
    BY DEF Life
  <1>2. Answers' = Answers
    BY DEF Answers
  <1>3. Holders' = Holders
    BY DEF Holders
  <1> QED
    BY <1>1, <1>2, <1>3 DEF Accounts!vars, Life, Answers

\* How the mapped variables move when one request moves.
LEMMA MappedMove ==
    ASSUME NEW q \in Requests, \A t \in Requests : t # q => req'[t] = req[t]
    PROVE  /\ Life' = [Life EXCEPT ![q] = req'[q].life]
           /\ Answers' = [Answers EXCEPT ![q] =
                             IF req'[q].life = "out" THEN 0 ELSE req'[q].answer]
  <1>1. Life' = [t \in Requests |-> req'[t].life]
    BY DEF Life
  <1>2. Answers' = [t \in Requests |-> IF req'[t].life = "out" THEN 0 ELSE req'[t].answer]
    BY DEF Answers
  <1>3. Life' = [Life EXCEPT ![q] = req'[q].life]
    BY <1>1 DEF Life
  <1> DEFINE a == IF req'[q].life = "out" THEN 0 ELSE req'[q].answer
  <1>4. \A t \in Requests : Answers'[t] = IF t = q THEN a ELSE Answers[t]
    BY <1>2 DEF Answers
  <1>5. DOMAIN Answers = Requests /\ Answers' = [t \in Requests |-> Answers'[t]]
    BY <1>2 DEF Answers
  <1> HIDE DEF a
  <1>6. [Answers EXCEPT ![q] = a] = [t \in Requests |-> IF t = q THEN a ELSE Answers[t]]
    BY <1>5
  <1>7. Answers' = [Answers EXCEPT ![q] = a]
    BY <1>4, <1>5, <1>6
  <1> QED
    BY <1>3, <1>7 DEF a

\* The end of a handler files one event, the first of its request, and gives
\* the permit back.
LEMMA EndsAreEnds ==
    ASSUME Inv, NEW q \in Requests, req[q].life = "in", NEW s,
           DOMAIN req' = Requests,
           \A t \in Requests : t # q => req'[t] = req[t],
           log' = [log EXCEPT ![q] = Append(@, s)],
           \/ req'[q].life = "answered" /\ req'[q].answer = s
              /\ s \in AnswerStatuses
           \/ req'[q].life = "left" /\ req'[q].answer = req[q].answer /\ s \in {499, 500}
    PROVE  Accounts!Next
  <1>1. log[q] = <<>> /\ q \in DOMAIN log
    BY DEF Inv, RequestInv
  <1>2. Append(<<>>, s) = <<s>>
    OBVIOUS
  <1>3. log' = [log EXCEPT ![q] = <<s>>]
    BY <1>1, <1>2
  <1>4. Holders' = Holders \ {q}
    BY DEF Holders
  <1>5. CASE req'[q].life = "answered"
    <2>1. Life' = [Life EXCEPT ![q] = "answered"] /\ Answers' = [Answers EXCEPT ![q] = s]
      BY <1>5, MappedMove
    <2>2. Accounts!Answer(q, s)
      BY <1>3, <1>4, <2>1 DEF Accounts!Answer, Life, Answers
    <2> QED
      BY <1>5, <2>2 DEF Accounts!Next, Accounts!Ends
  <1>6. CASE req'[q].life = "left"
    <2>1. Life' = [Life EXCEPT ![q] = "left"] /\ Answers' = Answers
      <3>1. /\ Life' = [Life EXCEPT ![q] = "left"]
            /\ Answers' = [Answers EXCEPT ![q] = req[q].answer]
        BY <1>6, MappedMove
      <3>2. Answers = [t \in Requests |-> Answers[t]] /\ Answers[q] = req[q].answer
        BY DEF Answers
      <3> QED
        BY <3>1, <3>2
    <2>2. Accounts!Leave(q, s)
      BY <1>3, <1>4, <2>1 DEF Accounts!Leave, Life, Answers
    <2> QED
      BY <1>6, <2>2 DEF Accounts!Next, Accounts!Ends, Accounts!LeftStatuses
  <1> QED
    BY <1>5, <1>6

LEMMA RepliesIsAnswer ==
    ASSUME Inv, NEW q \in Requests, req[q].life = "in",
           NEW s \in AnswerStatuses, Replies(q, s)
    PROVE  Accounts!Next
  <1>1. DOMAIN req = Requests /\ DOMAIN req[q] = Fields
    BY DEF Inv, RequestInv
  <1>2. /\ DOMAIN req' = Requests /\ \A t \in Requests : t # q => req'[t] = req[t]
        /\ req'[q].life = "answered" /\ req'[q].answer = s
        /\ log' = [log EXCEPT ![q] = Append(@, s)]
    BY <1>1 DEF Replies, Fields
  <1> QED
    BY <1>2, EndsAreEnds

LEMMA GoesOnIsStutter ==
    ASSUME Inv, NEW q \in Requests, req[q].life = "in", GoesOn(q)
    PROVE  UNCHANGED Accounts!vars
  <1>1. DOMAIN req = Requests /\ DOMAIN req[q] = Fields
    BY DEF Inv, RequestInv
  <1>2. \A t \in Requests : /\ req'[t].life = req[t].life
                            /\ req[t].life # "out" => req'[t].answer = req[t].answer
                            /\ req[t].life = "in" => req'[t].permit = req[t].permit
    BY <1>1 DEF GoesOn, Fields
  <1> QED
    BY <1>2, InsideIsStutter DEF GoesOn

\* Both modules count with the same operator.
LEMMA SameCardinality == \A S : Accounts!Cardinality(S) = Cardinality(S)
  BY Zenon DEF Accounts!Cardinality, Cardinality

\* A permit is taken by a handler that holds none, while one is free.
LEMMA PermitIsTake ==
    ASSUME Inv, NEW q \in Requests, PermitGranted(q)
    PROVE  Accounts!Next
  <1>1. req[q].life = "in" /\ Head(req[q].todo) = "permit" /\ UNCHANGED log
    BY DEF PermitGranted, In
  <1>2. DOMAIN req = Requests /\ DOMAIN req[q] = Fields /\ ScopeInv(req[q], q)
    BY <1>1 DEF Inv, RequestInv
  <1>3. /\ \A t \in Requests : t # q => req'[t] = req[t]
        /\ req'[q].life = "in" /\ req'[q].permit = TRUE /\ req'[q].answer = req[q].answer
    BY <1>1, <1>2 DEF PermitGranted, Fields
  <1>4. q \notin Holders
    BY <1>1, <1>2, StagesBefore DEF Holders, ScopeInv
  <1>5. Holders' = Holders \cup {q}
    BY <1>3 DEF Holders
  <1>6. Cardinality(Holders) < Permits
    <2>1. Cardinality(Holders) \in Nat
      BY FS_CardinalityType DEF Inv
    <2> QED
      BY <2>1, PermitsAssumption DEF PermitGranted, Available
  <1>7. Life[q] = "in" /\ UNCHANGED <<Life, Answers>>
    BY <1>1, <1>3 DEF Life, Answers
  <1>8. Accounts!Take(q)
    BY <1>1, <1>4, <1>5, <1>6, <1>7, SameCardinality DEF Accounts!Take, Life, Answers
  <1> QED
    BY <1>8 DEF Accounts!Next

LEMMA DroppedIsLeave ==
    ASSUME Inv, NEW q \in Requests, Dropped(q)
    PROVE  Accounts!Next
  <1>1. req[q].life = "in" /\ log' = [log EXCEPT ![q] = Append(@, DropStatus(q))]
    BY DEF Dropped
  <1>2. DOMAIN req = Requests /\ DOMAIN req[q] = Fields
    BY <1>1 DEF Inv, RequestInv
  <1>3. /\ DOMAIN req' = Requests /\ \A t \in Requests : t # q => req'[t] = req[t]
        /\ req'[q].life = "left" /\ req'[q].answer = req[q].answer
    BY <1>2 DEF Dropped, Fields
  <1>4. DropStatus(q) \in {499, 500}
    BY DEF DropStatus
  <1> QED
    BY <1>1, <1>3, <1>4, EndsAreEnds, ZenonT(60)

LEMMA ArriveIsAccept ==
    ASSUME Inv, NEW q \in Requests, NEW in \in Inputs, Arrive(q, in)
    PROVE  Accounts!Next
  <1>1. /\ req[q].life = "out" /\ UNCHANGED log
        /\ \A t \in Requests : t # q => req'[t] = req[t]
        /\ req'[q].life = "in" /\ req'[q].answer = 0 /\ req'[q].permit = FALSE
    BY DEF Arrive, Inv, NewScope
  <1>2. /\ Life' = [Life EXCEPT ![q] = "in"]
        /\ Answers' = [Answers EXCEPT ![q] = 0]
    BY <1>1, MappedMove
  <1>3. Answers' = Answers
    <2>1. Answers = [t \in Requests |-> Answers[t]] /\ Answers[q] = 0
      BY <1>1 DEF Answers
    <2> QED
      BY <1>2, <2>1
  <1>4. Holders' = Holders
    BY <1>1 DEF Holders
  <1>5. Accounts!Accept(q)
    BY <1>1, <1>2, <1>3, <1>4 DEF Accounts!Accept, Life, Answers
  <1> QED
    BY <1>5 DEF Accounts!Next

LEMMA StepIsAccounted ==
    ASSUME Inv, NEW q \in Requests, Step(q)
    PROVE  Accounts!Next \/ UNCHANGED Accounts!vars
  <1>1. req[q].life = "in"
    BY DEF Step, split_gemini_capture, acquire_permit, PermitGranted, PermitTimeout,
           enforce_body_limit, resolve_api_key, decode_request, enforce_api_key_policy,
           embedding_cache_lookup, RouteFound, UpstreamEnds, In
  <1>2. DOMAIN req = Requests /\ DOMAIN req[q] = Fields
    BY <1>1 DEF Inv, RequestInv
  <1>3. CASE \E s \in AnswerStatuses : Replies(q, s)
    BY <1>1, <1>3, RepliesIsAnswer
  <1>4. CASE GoesOn(q)
    BY <1>1, <1>4, GoesOnIsStutter
  <1>5. CASE split_gemini_capture(q) \/ enforce_body_limit(q) \/ decode_request(q)
             \/ PermitTimeout(q) \/ enforce_api_key_policy(q) \/ UpstreamEnds(q)
    BY <1>3, <1>4, <1>5 DEF split_gemini_capture, enforce_body_limit, decode_request,
       PermitTimeout, enforce_api_key_policy, UpstreamEnds, AnswerStatuses
  <1>6. CASE acquire_permit(q)
    <2>1. CASE req' = [req EXCEPT ![q].queued = TRUE] /\ UNCHANGED log
      <3>1. \A t \in Requests : /\ req'[t].life = req[t].life
                                /\ req[t].life # "out" => req'[t].answer = req[t].answer
                                /\ req[t].life = "in" => req'[t].permit = req[t].permit
        BY <1>2, <2>1 DEF Fields
      <3> QED
        BY <2>1, <3>1, InsideIsStutter
    <2> QED
      BY <1>3, <1>6, <2>1 DEF acquire_permit, AnswerStatuses
  <1>7. CASE resolve_api_key(q)
    <2>1. PICK failed \in BOOLEAN :
            \/ /\ enforce_auth(Lookup(req[q].in, failed)) # 200
               /\ Replies(q, enforce_auth(Lookup(req[q].in, failed)))
            \/ /\ req' = [req EXCEPT ![q].key = Resolved(req[q].in, Lookup(req[q].in, failed)),
                                      ![q].todo = Tail(@)]
               /\ UNCHANGED log
      BY <1>7 DEF resolve_api_key
    <2>2. enforce_auth(Lookup(req[q].in, failed)) \in AnswerStatuses
      BY DEF enforce_auth, AnswerStatuses
    <2>3. CASE /\ req' = [req EXCEPT ![q].key = Resolved(req[q].in, Lookup(req[q].in, failed)),
                                     ![q].todo = Tail(@)]
               /\ UNCHANGED log
      <3>1. \A t \in Requests : /\ req'[t].life = req[t].life
                                /\ req[t].life # "out" => req'[t].answer = req[t].answer
                                /\ req[t].life = "in" => req'[t].permit = req[t].permit
        BY <1>2, <2>3 DEF Fields
      <3> QED
        BY <2>3, <3>1, InsideIsStutter
    <2> QED
      BY <1>3, <2>1, <2>2, <2>3
  <1>8. CASE embedding_cache_lookup(q)
    <2>1. CASE /\ req' = [req EXCEPT ![q].life = "answered", ![q].answer = 200,
                           ![q].permit = FALSE, ![q].hit = cache[CacheKey(req[q].in)]]
               /\ log' = [log EXCEPT ![q] = Append(@, 200)]
      <3>1. DOMAIN req' = Requests
        BY <1>2, <2>1
      <3>2. \A t \in Requests : t # q => req'[t] = req[t]
        BY <1>2, <2>1
      <3>3. req'[q].life = "answered" /\ req'[q].answer = 200
        BY <1>2, <2>1 DEF Fields
      <3>4. log' = [log EXCEPT ![q] = Append(@, 200)]
        BY <2>1
      <3>5. 200 \in AnswerStatuses
        BY DEF AnswerStatuses
      <3>6. req[q].life = "in"
        BY <1>1
      <3>7. Accounts!Next
        BY <3>1, <3>2, <3>3, <3>4, <3>5, <3>6, EndsAreEnds, ZenonT(60)
      <3> QED
        BY <3>7
    <2> QED
      BY <1>4, <1>8, <2>1 DEF embedding_cache_lookup
  <1>9. CASE RouteFound(q)
    <2>1. CASE req' = [req EXCEPT ![q].waiting = TRUE, ![q].todo = Tail(@)] /\ UNCHANGED log
      <3>1. \A t \in Requests : /\ req'[t].life = req[t].life
                                /\ req[t].life # "out" => req'[t].answer = req[t].answer
                                /\ req[t].life = "in" => req'[t].permit = req[t].permit
        BY <1>2, <2>1 DEF Fields
      <3> QED
        BY <2>1, <3>1, InsideIsStutter
    <2>2. 404 \in AnswerStatuses
      BY DEF AnswerStatuses
    <2> QED
      BY <1>3, <1>9, <2>1, <2>2 DEF RouteFound
  <1> QED
    BY <1>5, <1>6, <1>7, <1>8, <1>9, PermitIsTake DEF Step

\* Every step of the handlers, of the admin and of the reloader is a step of the
\* accounting or none: a request is accepted once, takes at most one permit and
\* only one that is free, and its end files its one event, with the status the
\* client was sent, and gives the permit back.  (That it ends is for TLC.)
THEOREM StepsAreAccounted == Spec => Accounts!SafeSpec
  <1>1. Init => Accounts!Init
    <2> SUFFICES ASSUME Init PROVE Accounts!Init
      OBVIOUS
    <2>1. Life = [q \in Requests |-> "out"] /\ Answers = [q \in Requests |-> 0]
      BY DEF Init, Life, Answers, Out
    <2>2. Holders = {}
      BY DEF Init, Holders, Out
    <2> QED
      BY <2>1, <2>2 DEF Init, Accounts!Init, Life, Answers
  <1>2. Inv /\ [Next]_vars => [Accounts!Next]_(Accounts!vars)
    <2> SUFFICES ASSUME Inv, [Next]_vars
                 PROVE  Accounts!Next \/ UNCHANGED Accounts!vars
      OBVIOUS
    <2>1. CASE UNCHANGED <<req, log>>
      BY <2>1, InsideIsStutter
    <2>2. ASSUME NEW q \in Requests, Step(q) \/ Dropped(q) \/ \E in \in Inputs : Arrive(q, in)
          PROVE  Accounts!Next \/ UNCHANGED Accounts!vars
      BY <2>2, StepIsAccounted, DroppedIsLeave, ArriveIsAccept
    <2>3. ASSUME NEW k \in DOMAIN cache, Evict(k) PROVE UNCHANGED <<req, log>>
      BY <2>3 DEF Evict
    <2>4. ASSUME NEW e \in KeyEdits, EditKey(e) PROVE UNCHANGED <<req, log>>
      BY <2>4 DEF EditKey, create_api_key, delete_api_key, disable_api_key, update_api_key_quota,
           update_api_key_model_access, import_api_key, WriteKey
    <2>5. ASSUME NEW t \in Tunables, Reload(t) PROVE UNCHANGED <<req, log>>
      BY <2>5 DEF Reload
    <2>6. CASE UNCHANGED vars
      BY <2>1, <2>6 DEF vars
    <2> QED
      BY <2>1, <2>2, <2>3, <2>4, <2>5, <2>6 DEF Next
  <1> QED
    BY <1>1, <1>2, InvHolds, PTL DEF Spec, Accounts!SafeSpec
=============================================================================
