----------------------------- MODULE ModelGateways -----------------------------
(***************************************************************************)
(* The embedding client and what is made with it: the shared cache of      *)
(* vectors, the vectors of chunks, the agents' memory; and what the        *)
(* readiness routes say of the two model gateways.                         *)
(*                                                                         *)
(* Several processes, web and worker, share Redis, the database and the    *)
(* vector store.  A deployment changes the settings of one process at a    *)
(* time.  A vector is told by the gateway, the model and the text it was   *)
(* made of, and by its length.                                             *)
(***************************************************************************)
EXTENDS Integers, Sequences, FiniteSets

CONSTANTS
  Processes,
  Texts,
  Settings,    \* configurations that may be deployed
  HashModel,   \* name of the local model, and the default of EMBEDDING_MODEL_NAME
  Work,        \* what a process may be asked for: a purpose and its texts
  BatchSize,   \* texts of one request to the gateway
  Retries,     \* EMBEDDING_MAX_RETRIES
  None,
  Deployments, \* bound: changes of settings
  Calls        \* bound: calls begun

\* padded is an openai-compatible with a blank, which the settings keep.  gateway stands
\* for its address, with the dimensions and the encoding asked for; 0: no address or no
\* key.  answers is the length of the vectors it gives, dimension the configured one.
\* One record stands for EMBEDDING_ and for LLM_ settings, each read by its own side.
Setting ==
  [provider : {"deterministic", "openai-compatible", "padded"}, gateway : Nat,
   model : STRING, dimension : Nat \ {0}, answers : Nat \ {0}]

ASSUME GatewayAssumption ==
  /\ Settings \subseteq Setting /\ Settings # {}
  /\ BatchSize \in Nat \ {0} /\ Retries \in Nat /\ Deployments \in Nat /\ Calls \in Nat
  /\ \A w \in Work : /\ w.purpose \in {"index", "remember", "recall"}
                     /\ w.texts \in Seq(Texts) /\ w.texts # <<>>

VARIABLES
  setting,   \* of each process
  used,      \* history: the settings that were ever deployed
  cache,     \* Redis: a vector, or None, under a model's name and a text
  memory,    \* agent_memory: text, model_name and vector
  indexed,   \* for each chunk text its vector and the profile its row names, or None
  call,      \* the call each process is in
  verdict,   \* what each process said last of one of its gateways, or None
  left       \* the bounds' counters

gatewayVars == <<setting, used, cache, memory, indexed, call, verdict, left>>

-----------------------------------------------------------------------------
(* Settings *)

Reached(s) == s.gateway # 0

\* get_active_embedding_profile compares the provider as it is written.
Profiled(s) == s.provider = "openai-compatible" /\ Reached(s)

Name(s) == IF Profiled(s) THEN s.model ELSE HashModel

\* profile_key
ProfileOf(s) ==
  [model |-> Name(s), dimension |-> s.dimension, gateway |-> IF Profiled(s) THEN s.gateway ELSE 0]

\* The readiness checks, and get_embedding_client, strip it first.
Remote(s) == s.provider # "deterministic"

EmbeddingClient(s) ==
  IF ~Remote(s) THEN "local" ELSE IF Reached(s) THEN "gateway" ELSE "error"

\* get_policy_answer_client compares it as it is written, and falls back.
AnswerClient(s) == IF Profiled(s) THEN "gateway" ELSE "local"

\* The vector the process's client makes of a text.
Own(s, t) ==
  IF EmbeddingClient(s) = "gateway"
  THEN [gateway |-> s.gateway, model |-> s.model, text |-> t, length |-> s.answers]
  ELSE [gateway |-> 0, model |-> HashModel, text |-> t, length |-> s.dimension]

Fits(s) == s.answers = s.dimension

Names == {Name(s) : s \in Settings}

\* Mutant: one entry per text, whatever the model.
KeyOfText(s, t) == <<HashModel, t>>

\* embedding_cache_key
Key(s, t) == <<Name(s), t>>

\* Every name an entry may have: none needs to be in use.
Keys == (Names \cup {HashModel}) \X Texts

-----------------------------------------------------------------------------
(* Calls *)

\* A call in some state of its work: w names its purpose and its texts.
Asked(pc, w, slots, fresh, tried) ==
  [pc |-> pc, purpose |-> w.purpose, texts |-> w.texts, slots |-> slots,
   fresh |-> fresh, tried |-> tried]

NoCall == Asked("idle", [purpose |-> "recall", texts |-> <<>>], <<>>, <<>>, 0)

GatewayInit ==
  /\ \E s \in Settings : setting = [p \in Processes |-> s]
  /\ used = {setting[p] : p \in Processes}
  /\ cache = [k \in Keys |-> None]
  /\ memory = {}
  /\ indexed = [t \in Texts |-> None]
  /\ call = [p \in Processes |-> NoCall]
  /\ verdict = [p \in Processes |-> None]
  /\ left = [deployments |-> Deployments, calls |-> Calls]

\* A process is replaced: what it was doing is lost.
Deploy(p, s) ==
  /\ left.deployments > 0
  /\ setting' = [setting EXCEPT ![p] = s]
  /\ used' = used \cup {s}
  /\ call' = [call EXCEPT ![p] = NoCall]
  /\ verdict' = [verdict EXCEPT ![p] = None]
  /\ left' = [left EXCEPT !.deployments = left.deployments - 1]
  /\ UNCHANGED <<cache, memory, indexed>>

\* A hit must have the configured length.
Usable(v, s) == v # None /\ v.length = s.dimension

\* The cache is asked for every text; a lookup that fails is a miss, and so is an entry
\* whose TTL has ended or that Redis made room of.
Found(s, texts, lost) ==
  [i \in DOMAIN texts |->
    LET v == cache[Key(s, texts[i])] IN IF i \notin lost /\ Usable(v, s) THEN v ELSE None]

\* What is left to ask for.
Missing(slots, fresh) == {i \in DOMAIN slots : slots[i] = None /\ fresh[i] = None}

\* A call begins.  Only a miss needs the client, which is refused without an address.
Begin(p, w, lost) ==
  LET s == setting[p]
      slots == Found(s, w.texts, lost)
      fresh == [i \in DOMAIN w.texts |->
                 IF slots[i] = None /\ EmbeddingClient(s) = "local"
                 THEN Own(s, w.texts[i]) ELSE None]
  IN  /\ left.calls > 0 /\ call[p].pc = "idle" /\ lost \subseteq DOMAIN w.texts
      /\ left' = [left EXCEPT !.calls = left.calls - 1]
      /\ call' = [call EXCEPT ![p] =
           IF Missing(slots, fresh) = {} THEN Asked("write", w, slots, fresh, 0)
           ELSE IF EmbeddingClient(s) = "error" THEN NoCall
           ELSE Asked("embed", w, slots, fresh, 0)]
      /\ UNCHANGED <<setting, used, cache, memory, indexed, verdict>>

\* The next texts in order, at most BatchSize of them.
Batch(c) ==
  LET missing == Missing(c.slots, c.fresh)
  IN  {i \in missing : Cardinality({j \in missing : j < i}) < BatchSize}

\* The orders in which the items of a batch may arrive: each text has one.
Arrivals(B) == {f \in [B -> B] : \A i \in B : \E j \in B : f[j] = i}

\* Mutant: vectors are taken in the order they arrive.
PlacedAsTheyCome(order, i) == i

\* _parse_embeddings sorts by index: the item of text i, wherever it arrived.
Placed(order, i) == CHOOSE j \in DOMAIN order : order[j] = i

\* The gateway answers with the batch's vectors in any order, item j being that of text
\* order[j]; a wrong length is not retried.
Answered(p, order) ==
  LET c == call[p]
      s == setting[p]
      fresh == [i \in DOMAIN c.texts |->
                 IF i \in Batch(c) THEN Own(s, c.texts[order[Placed(order, i)]]) ELSE c.fresh[i]]
  IN  /\ c.pc = "embed" /\ order \in Arrivals(Batch(c))
      /\ call' = [call EXCEPT ![p] =
           IF ~Fits(s) THEN NoCall
           ELSE IF Missing(c.slots, fresh) = {} THEN Asked("write", c, c.slots, fresh, 0)
           ELSE Asked("embed", c, c.slots, fresh, 0)]
      /\ UNCHANGED <<setting, used, cache, memory, indexed, verdict, left>>

\* 408, 409, 429, 5xx and lost connections are retried.
Retry(p) ==
  LET c == call[p]
  IN  /\ c.pc = "embed" /\ c.tried < Retries
      /\ call' = [call EXCEPT ![p] = Asked("embed", c, c.slots, c.fresh, c.tried + 1)]
      /\ UNCHANGED <<setting, used, cache, memory, indexed, verdict, left>>

\* Out of retries, refused, too few vectors, or the process died.
Fail(p) ==
  /\ call[p].pc # "idle"
  /\ call' = [call EXCEPT ![p] = NoCall]
  /\ UNCHANGED <<setting, used, cache, memory, indexed, verdict, left>>

Whole(c) == [i \in DOMAIN c.texts |-> IF c.slots[i] = None THEN c.fresh[i] ELSE c.slots[i]]

\* Nothing is cached before the last batch is there; a write that fails is passed over.
Write(p, kept) ==
  LET c == call[p]
      of(k) == {i \in kept : Key(setting[p], c.texts[i]) = k}
  IN  /\ c.pc = "write" /\ kept \subseteq {i \in DOMAIN c.texts : c.slots[i] = None}
      /\ cache' = [k \in Keys |->
           IF of(k) = {} THEN cache[k] ELSE c.fresh[CHOOSE i \in of(k) : TRUE]]
      /\ call' = [call EXCEPT ![p] = Asked("use", c, Whole(c), c.fresh, c.tried)]
      /\ UNCHANGED <<setting, used, memory, indexed, verdict, left>>

\* The vectors go where they were wanted: a recall compares and stores nothing.
Use(p) ==
  LET c == call[p]
      s == setting[p]
  IN  /\ c.pc = "use"
      /\ memory' = IF c.purpose = "remember"
                   THEN memory \cup {[text |-> c.texts[i], name |-> Name(s), vector |-> c.slots[i]]
                                      : i \in DOMAIN c.texts}
                   ELSE memory
      /\ indexed' = IF c.purpose = "index"
                    THEN [t \in Texts |->
                           LET at == {i \in DOMAIN c.texts : c.texts[i] = t}
                           IN  IF at = {} THEN indexed[t]
                               ELSE [profile |-> ProfileOf(s),
                                     vector |-> c.slots[CHOOSE i \in at : TRUE]]]
                    ELSE indexed
      /\ call' = [call EXCEPT ![p] = NoCall]
      /\ UNCHANGED <<setting, used, cache, verdict, left>>

-----------------------------------------------------------------------------
(* Readiness *)

\* Mutant: any reply will do.
ServesAnything(side, s) == TRUE

\* What a real request would show: the embedding probe looks at the length.
Serves(side, s) == side = "answer" \/ Fits(s)

Said(side, client, status, by) == [side |-> side, client |-> client, status |-> status, by |-> by]

\* /models decides, unless the gateway has no such route: then a real request does.
Readiness(side, s, listing, up) ==
  IF ~Remote(s) THEN Said(side, "local", "ready", "settings")
  ELSE IF ~Reached(s) THEN Said(side, "gateway", "missing_config", "settings")
  ELSE IF listing = "listed" THEN Said(side, "gateway", "ready", "list")
  ELSE IF listing = "absent" /\ up /\ Serves(side, s) THEN Said(side, "gateway", "ready", "request")
  ELSE Said(side, "gateway", "unreachable", "request")

Check(p, side, listing, up) ==
  /\ left.calls > 0 /\ call[p].pc = "idle"
  /\ left' = [left EXCEPT !.calls = left.calls - 1]
  /\ verdict' = [verdict EXCEPT ![p] = Readiness(side, setting[p], listing, up)]
  /\ UNCHANGED <<setting, used, cache, memory, indexed, call>>

\* The smoke tests make one real request, past the cache; the local client's sample is a
\* text of its own.
SmokeTest(side, s, up) ==
  IF ~Remote(s) THEN Said(side, "local", "ready", "request")
  ELSE IF ~Reached(s) THEN Said(side, "gateway", "missing_config", "settings")
  ELSE IF up /\ Serves(side, s) THEN Said(side, "gateway", "ready", "request")
  ELSE Said(side, "gateway", "failed", "request")

Smoke(p, side, up) ==
  /\ left.calls > 0 /\ call[p].pc = "idle"
  /\ left' = [left EXCEPT !.calls = left.calls - 1]
  /\ verdict' = [verdict EXCEPT ![p] = SmokeTest(side, setting[p], up)]
  /\ UNCHANGED <<setting, used, cache, memory, indexed, call>>

Sides == {"embedding", "answer"}

GatewayNext ==
  \E p \in Processes :
       \/ \E s \in Settings : Deploy(p, s)
       \/ \E w \in Work : \E lost \in SUBSET DOMAIN w.texts : Begin(p, w, lost)
       \/ \E order \in Arrivals(Batch(call[p])) : Answered(p, order)
       \/ Retry(p) \/ Fail(p)
       \/ \E kept \in SUBSET DOMAIN call[p].texts : Write(p, kept)
       \/ Use(p)
       \/ \E side \in Sides, up \in BOOLEAN :
            \/ \E listing \in {"listed", "absent", "broken"} : Check(p, side, listing, up)
            \/ Smoke(p, side, up)

GatewaySpec == GatewayInit /\ [][GatewayNext]_gatewayVars

-----------------------------------------------------------------------------
(* Properties *)

Vectors == {Own(s, t) : s \in Settings, t \in Texts}

Purposes == {"index", "remember", "recall"}

CallTypes ==
  [pc : {"idle", "embed", "write", "use"}, purpose : Purposes, texts : Seq(Texts),
   slots : Seq(Vectors \cup {None}), fresh : Seq(Vectors \cup {None}), tried : 0..Retries]

VerdictTypes ==
  [side : Sides, client : {"local", "gateway"},
   status : {"ready", "missing_config", "unreachable", "failed"},
   by : {"settings", "list", "request"}]

\* Every variable has its type.
GatewayTypeOK ==
  /\ setting \in [Processes -> Settings] /\ used \subseteq Settings
  /\ cache \in [Keys -> Vectors \cup {None}]
  /\ memory \subseteq [text : Texts, name : Names, vector : Vectors]
  /\ indexed \in [Texts -> [profile : {ProfileOf(s) : s \in Settings}, vector : Vectors]
                           \cup {None}]
  /\ call \in [Processes -> CallTypes]
  /\ verdict \in [Processes -> VerdictTypes \cup {None}]
  /\ left \in [deployments : 0..Deployments, calls : 0..Calls]

\* Each text has the vector of that text, in the length its process is configured for,
\* whatever the batches, the order of the answers and the gaps in the cache.
EachItsOwn ==
  /\ \A p \in Processes : call[p].pc = "use" =>
       \A i \in DOMAIN call[p].texts : /\ call[p].slots[i].text = call[p].texts[i]
                                       /\ call[p].slots[i].length = setting[p].dimension
  /\ \A m \in memory : m.vector.text = m.text
  /\ \A t \in Texts : indexed[t] # None => /\ indexed[t].vector.text = t
                                           /\ indexed[t].vector.length = indexed[t].profile.dimension

\* v is what a client deployed under this name makes of t.
MadeUnder(deployed, name, t, v) ==
  \E o \in deployed : Name(o) = name /\ EmbeddingClient(o) # "error" /\ v = Own(o, t)

\* Vectors of two spaces meet, in a cache, in the memory or in the index, only when two
\* deployments gave two clients one model name: the cache and the memory ask for no more.
MixedOnlyUnderOneName ==
  /\ \A k \in Keys : cache[k] # None => MadeUnder(used, k[1], k[2], cache[k])
  /\ \A m \in memory : MadeUnder(used, m.name, m.text, m.vector)
  /\ \A t \in Texts : indexed[t] # None =>
       MadeUnder(used, indexed[t].profile.model, t, indexed[t].vector)

ClientOf(side, s) == IF side = "answer" THEN AnswerClient(s) ELSE EmbeddingClient(s)

HoldsFor(v, s) ==
  LET client == ClientOf(v.side, s)
  IN  /\ v.status = "missing_config" => client # "gateway"
      /\ v.client = "local" => client = "local"
      /\ v.status = "ready" /\ v.client = "gateway" =>
           client = "gateway" \/ (v.side = "answer" /\ s.provider = "padded")
      /\ v.status = "ready" /\ v.client = "gateway" /\ v.by = "request" /\ v.side = "embedding"
           => Fits(s)

\* What a process says of a gateway holds for its calls: a ready gateway is the one they go
\* to (unless the provider is padded: the answer client does not strip it), one that was
\* asked gives vectors of the configured length, and without an address none is called.
VerdictsHold ==
  \A p \in Processes : verdict[p] # None => HoldsFor(verdict[p], setting[p])

=============================================================================
