---------------------------- MODULE CatalogueProofs ----------------------------
(***************************************************************************)
(* Proofs about Catalogue for any resources, clients and texts, and any    *)
(* number of calls and crashes.                                            *)
(*                                                                         *)
(* The start-up runs alone: no call is in progress before Listen, and the  *)
(* connection it opens checks foreign keys until CreateArtifact unchecks   *)
(* them.  A call marked alone is the only one at work on its ARN, for a    *)
(* call that begins there takes the mark away.  So what such a save wrote  *)
(* to the file is still there when it writes the row, and no call is about *)
(* to change a text that is recorded as saved.                             *)
(***************************************************************************)
EXTENDS Catalogue, TLAPS

\* The start-up runs alone, and after Open with foreign keys on.
StartInv ==
  /\ pc # "up" => \A c \in Clients : calls[c] = Idle
  /\ pc \in {"register", "up"} /\ ~unchecked => foreignKeys
  /\ next # 0
  /\ pc = "write" => next \in DOMAIN Defaults /\ files[Defaults[next]] = Torn
  /\ \A a \in todo : a \in Arn /\ files[a] # None
  /\ pc # "register" => todo = {}

\* A save in progress: its text is written before the row is, unless another call is
\* at work on the ARN.
PutInv ==
  \A c \in Clients : calls[c] # Idle /\ calls[c].op = "put" =>
    /\ calls[c].text \in Content
    /\ calls[c].step = 3 /\ calls[c].alone /\ calls[c].arn \in Pathed
         => files[calls[c].arn] = calls[c].text
    /\ calls[c].step # 3 => calls[c].arn \in Pathed

AloneInv ==
  \A c \in Clients : calls[c] # Idle /\ calls[c].op # "execute" /\ calls[c].alone =>
    \A x \in Clients \ {c} : ~Changing(x, calls[c].arn)

\* What was saved is in the row and in the file, and no call is about to change it.
SavedInv ==
  \A a \in Arn : saved[a] # None =>
    /\ \A x \in Clients : ~Changing(x, a)
    /\ rows[a] # None /\ rows[a].config = saved[a]
    /\ a \in Pathed => files[a] = saved[a]

CatalogueInv ==
  TypeOK /\ StartInv /\ PutInv /\ AloneInv /\ SavedInv /\ KeptWhileChecked

-------------------------------------------------------------------------------
\* Texts.

LEMMA UpdateType ==
  ASSUME NEW c \in Content, NEW v \in Values \cup {Blank}, NEW kind \in Kinds
  PROVE  ApplyUpdate(kind, c, v) \in Content
<1>1. /\ c.doc.fields \cup {"spec", "description"} \in SUBSET Field
      /\ c.doc \in Document
  BY DEF Content, Document, Field
<1>2. IntoSpec(c, v) \in Content
  BY DEF IntoSpec, Content
<1>3. ApplyWorkflowUpdate(c, v) \in Content
  BY <1>1 DEF ApplyWorkflowUpdate, Content, Document
<1> QED
  BY <1>2, <1>3 DEF ApplyUpdate, Kinds, ApplyAgentUpdate, ApplySkillUpdate, ApplyPromptUpdate,
     ApplyToolUpdate, ApplyTemplateUpdate

LEMMA BuildType ==
  ASSUME NEW v \in Values \cup {Blank}, NEW kind \in Kinds
  PROVE  BuildConfig(kind, v) \in Content
<1>1. ASSUME NEW fields \in SUBSET Field
      PROVE  Built(fields, v) \in Content
  <2>1. {"apiVersion", "kind", "metadata", "spec"} \cup fields \in SUBSET Field
    BY DEF Field
  <2>2. <<>> \in Seq(Stage) /\ {} \in SUBSET Field /\ {} \in SUBSET Arn
    OBVIOUS
  <2> QED
    BY <2>1, <2>2 DEF Built, Content, Document
<1>2. {} \in SUBSET Field /\ {"version", "description"} \in SUBSET Field
  BY DEF Field
<1>3. Built({}, v) \in Content /\ Built({"version", "description"}, v) \in Content
  BY <1>1, <1>2
<1> QED
  BY <1>3 DEF BuildConfig, Kinds, BuildAgentConfig, BuildSkillConfig, BuildPromptConfig,
     BuildToolConfig, BuildTemplateConfig, BuildWorkflowConfig

LEMMA ReadYamlType ==
  ASSUME NEW config \in Content \cup {None}
  PROVE  ReadYaml(config) \in Content
<1>1. EmptyMapping \in Content
  BY DEF EmptyMapping, Content, Document
<1>2. ASSUME config \in Content
      PROVE  AsYaml(config) \in Content
  <2>1. config.doc \in Document
    BY <1>2 DEF Content
  <2> QED
    BY <1>2, <2>1 DEF AsYaml, Content, Document
<1> QED
  BY <1>1, <1>2 DEF ReadYaml

LEMMA AsJsonType ==
  ASSUME NEW c \in Content
  PROVE  AsJson(c) \in Content
<1>1. c.doc \in Document
  BY DEF Content
<1> QED
  BY <1>1 DEF AsJson, Content, Document

-------------------------------------------------------------------------------
\* Calls.

LEMMA CallType ==
  ASSUME NEW call \in Call
  PROVE  /\ call # Idle
         /\ call.op \in {"update", "delete", "put", "execute"}
         /\ call.arn \in Arn /\ call.kind \in Kinds /\ call.row \in Row
         /\ call.text \in Content \cup {None} /\ call.value \in Values \cup {Blank}
         /\ call.step \in Nat /\ call.alone \in BOOLEAN
BY DEF Call, Idle

LEMMA RequestType ==
  ASSUME TypeOK, NEW op \in {"update", "delete", "put", "execute"}, NEW a \in Arn,
         NEW kind \in Kinds, NEW text \in Content \cup {None},
         NEW v \in Values \cup {Blank}, NEW step \in Nat, rows[a] # None
  PROVE  /\ Request(op, a, kind, text, v, step) \in Call
         /\ Request(op, a, kind, text, v, step).op = op
         /\ Request(op, a, kind, text, v, step).arn = a
         /\ Request(op, a, kind, text, v, step).text = text
         /\ Request(op, a, kind, text, v, step).step = step
         /\ Request(op, a, kind, text, v, step).alone
              => \A x \in Clients : ~Changing(x, a)
<1> DEFINE alone == \A x \in Clients : ~Changing(x, a)
<1>1. rows[a] \in Row
  BY DEF TypeOK
<1>2. alone \in BOOLEAN
  OBVIOUS
<1>3. Request(op, a, kind, text, v, step) =
        [op |-> op, arn |-> a, kind |-> kind, row |-> rows[a], text |-> text, value |-> v,
         step |-> step, alone |-> alone]
  BY Zenon DEF Request
<1> HIDE DEF alone
<1>4. /\ Request(op, a, kind, text, v, step) \in Call
      /\ Request(op, a, kind, text, v, step).op = op
      /\ Request(op, a, kind, text, v, step).arn = a
      /\ Request(op, a, kind, text, v, step).text = text
      /\ Request(op, a, kind, text, v, step).step = step
      /\ Request(op, a, kind, text, v, step).alone = alone
  BY <1>1, <1>2, <1>3 DEF Call
<1> QED
  BY <1>4 DEF alone

\* A call that begins.
LEMMA BeginCalls ==
  ASSUME TypeOK, AloneInv, NEW c \in Clients, NEW a \in Arn, NEW call \in Call \cup {Idle},
         Begin(c, a, call),
         call # Idle => /\ call.arn = a /\ call.op # "execute"
                        /\ call.alone => \A x \in Clients : ~Changing(x, a)
  PROVE  /\ calls' \in [Clients -> Call \cup {Idle}] /\ calls'[c] = call
         /\ \A x \in Clients \ {c} :
              /\ calls'[x] = Idle <=> calls[x] = Idle
              /\ calls[x] # Idle => /\ calls'[x].op = calls[x].op /\ calls'[x].arn = calls[x].arn
                                    /\ calls'[x].text = calls[x].text
                                    /\ calls'[x].step = calls[x].step
                                    /\ calls'[x].alone => calls[x].alone /\ ~Changing(x, a)
         /\ AloneInv'
<1> DEFINE other(x) == IF Changing(x, a) THEN [calls[x] EXCEPT !.alone = FALSE] ELSE calls[x]
<1>1. calls \in [Clients -> Call \cup {Idle}]
  BY DEF TypeOK
<1>2. calls' = [x \in Clients |-> IF x = c THEN call ELSE other(x)]
  BY DEF Begin
<1>3. ASSUME NEW x \in Clients
      PROVE  /\ other(x) \in Call \cup {Idle}
             /\ other(x) = Idle <=> calls[x] = Idle
             /\ calls[x] # Idle => /\ other(x).op = calls[x].op /\ other(x).arn = calls[x].arn
                                   /\ other(x).text = calls[x].text
                                   /\ other(x).step = calls[x].step
                                   /\ other(x).alone => calls[x].alone /\ ~Changing(x, a)
  <2>1. CASE Changing(x, a)
    <3>1. calls[x] \in Call /\ other(x) = [calls[x] EXCEPT !.alone = FALSE]
      BY <1>1, <2>1 DEF Changing
    <3>2. other(x) \in Call /\ ~other(x).alone
      BY <3>1 DEF Call
    <3> HIDE DEF other
    <3> QED
      BY <3>1, <3>2, CallType DEF Call
  <2>2. CASE ~Changing(x, a)
    BY <1>1, <2>2
  <2> QED
    BY <2>1, <2>2
<1> HIDE DEF other
<1>4. calls' \in [Clients -> Call \cup {Idle}] /\ calls'[c] = call
  BY <1>2, <1>3
<1>5. \A x \in Clients \ {c} : calls'[x] = other(x)
  BY <1>2
<1>6. \A x \in Clients \ {c} : \A b : Changing(x, b)' <=> Changing(x, b)
  BY <1>3, <1>5 DEF Changing
<1>7. AloneInv'
  <2> SUFFICES ASSUME NEW d \in Clients, calls'[d] # Idle, calls'[d].op # "execute",
                      calls'[d].alone, NEW x \in Clients \ {d}, Changing(x, calls[d].arn)'
               PROVE  FALSE
    BY DEF AloneInv
  <2>1. CASE d = c
    BY <1>4, <1>6, <2>1
  <2>2. CASE d # c
    <3>1. /\ calls[d] # Idle /\ calls[d].op # "execute" /\ calls[d].alone
          /\ ~Changing(d, a) /\ calls'[d].arn = calls[d].arn
      BY <1>3, <1>5, <2>2
    <3>2. CASE x = c
      <4>1. call # Idle /\ call.arn = calls[d].arn
        BY <1>4, <3>1, <3>2 DEF Changing
      <4> QED
        BY <3>1, <4>1 DEF Changing
    <3>3. CASE x # c
      BY <1>6, <3>1, <3>3 DEF AloneInv
    <3> QED
      BY <3>2, <3>3
  <2> QED
    BY <2>1, <2>2
<1> QED
  BY <1>3, <1>4, <1>5, <1>7

\* A call that ends.
LEMMA EndCalls ==
  ASSUME TypeOK, AloneInv, NEW c \in Clients, End(c)
  PROVE  /\ calls' \in [Clients -> Call \cup {Idle}] /\ calls'[c] = Idle
         /\ \A x \in Clients \ {c} : calls'[x] = calls[x]
         /\ \A x \in Clients : \A b : Changing(x, b)' => Changing(x, b)
         /\ AloneInv'
<1>1. /\ calls' \in [Clients -> Call \cup {Idle}] /\ calls'[c] = Idle
      /\ \A x \in Clients \ {c} : calls'[x] = calls[x]
  BY DEF TypeOK, End
<1>2. \A x \in Clients : \A b : Changing(x, b)' => Changing(x, b)
  BY <1>1 DEF Changing
<1>3. AloneInv'
  BY <1>1, <1>2 DEF AloneInv
<1> QED
  BY <1>1, <1>2, <1>3

\* A call that goes on.
LEMMA AdvanceCalls ==
  ASSUME TypeOK, AloneInv, NEW c \in Clients, Advance(c), calls[c] # Idle
  PROVE  /\ calls' \in [Clients -> Call \cup {Idle}]
         /\ calls'[c] = [calls[c] EXCEPT !.step = @ + 1]
         /\ calls'[c] \in Call /\ calls'[c].step = calls[c].step + 1
         /\ calls'[c].op = calls[c].op /\ calls'[c].arn = calls[c].arn
         /\ calls'[c].text = calls[c].text /\ calls'[c].alone = calls[c].alone
         /\ \A x \in Clients \ {c} : calls'[x] = calls[x]
         /\ \A x \in Clients : \A b : Changing(x, b)' => Changing(x, b)
         /\ AloneInv'
<1>1. calls[c] \in Call
  BY DEF TypeOK
<1>2. /\ calls'[c] = [calls[c] EXCEPT !.step = @ + 1]
      /\ \A x \in Clients \ {c} : calls'[x] = calls[x]
      /\ calls' = [calls EXCEPT ![c] = [calls[c] EXCEPT !.step = @ + 1]]
  BY DEF TypeOK, Advance
<1>3. /\ calls'[c] \in Call /\ calls'[c].step = calls[c].step + 1
      /\ calls'[c].op = calls[c].op /\ calls'[c].arn = calls[c].arn
      /\ calls'[c].text = calls[c].text /\ calls'[c].alone = calls[c].alone
  BY <1>1, <1>2 DEF Call
<1>4. calls' \in [Clients -> Call \cup {Idle}]
  <2>1. [calls[c] EXCEPT !.step = @ + 1] \in Call
    BY <1>2, <1>3
  <2> QED
    BY <1>2, <2>1 DEF TypeOK
<1>5. calls'[c] # Idle
  BY <1>3, CallType
<1>6. \A x \in Clients : \A b : Changing(x, b)' => Changing(x, b)
  BY <1>2, <1>3 DEF Changing
<1>7. AloneInv'
  BY <1>2, <1>3, <1>5, <1>6 DEF AloneInv
<1> QED
  BY <1>2, <1>3, <1>4, <1>6, <1>7

-------------------------------------------------------------------------------
\* What a step leaves alone.

\* A row and a file that were saved stay if nobody begins to change them.
LEMMA SavedKept ==
  ASSUME SavedInv,
         \A a \in Arn : saved'[a] # None =>
           /\ saved'[a] = saved[a]
           /\ \A x \in Clients : Changing(x, a)' => Changing(x, a)
           /\ rows'[a] = rows[a] /\ (a \in Pathed => files'[a] = files[a])
  PROVE  SavedInv'
BY DEF SavedInv

\* Executions keep their workflow if no row goes.
LEMMA ExecutedStay ==
  ASSUME KeptWhileChecked, executed' = executed, unchecked' = unchecked,
         executed \subseteq Arn, \A a \in Arn : rows[a] # None => rows'[a] # None
  PROVE  KeptWhileChecked'
BY DEF KeptWhileChecked, ExecutedKept

\* A step of the server by itself: no call is in progress.
LEMMA NoCalls ==
  ASSUME CatalogueInv, pc # "up", calls' = calls
  PROVE  PutInv' /\ AloneInv' /\ \A x \in Clients : \A a : ~Changing(x, a)'
BY DEF CatalogueInv, StartInv, PutInv, AloneInv, Changing

-------------------------------------------------------------------------------
\* The start-up.

LEMMA InitInv == Init => CatalogueInv
<1> SUFFICES ASSUME Init PROVE CatalogueInv
  OBVIOUS
<1>1. TypeOK
  <2>1. files \in [Arn -> Content \cup {None, Torn}]
    BY CatalogueAssumption DEF Init
  <2>2. /\ rows \in [Arn -> Row \cup {None}] /\ saved \in [Arn -> Content \cup {None}]
        /\ calls \in [Clients -> Call \cup {Idle}]
    BY DEF Init
  <2>3. made \in 0 .. MaxCalls /\ crashes \in 0 .. MaxCrashes /\ next \in Nat
    BY CatalogueAssumption DEF Init
  <2>4. /\ db \in BOOLEAN /\ foreignKeys \in BOOLEAN /\ interrupted \in BOOLEAN
        /\ unchecked \in BOOLEAN /\ executed \subseteq Arn /\ todo \subseteq Arn
        /\ warned \subseteq Arn
        /\ pc \in {"down", "init", "defaults", "write", "open", "register", "up"}
    BY DEF Init
  <2> QED
    BY <2>1, <2>2, <2>3, <2>4 DEF TypeOK
<1>2. StartInv /\ PutInv /\ AloneInv /\ SavedInv /\ KeptWhileChecked
  BY DEF Init, StartInv, PutInv, AloneInv, SavedInv, KeptWhileChecked, ExecutedKept
<1> QED
  BY <1>1, <1>2 DEF CatalogueInv

LEMMA StartStep == CatalogueInv /\ Start => CatalogueInv'
<1> SUFFICES ASSUME CatalogueInv, Start PROVE CatalogueInv'
  OBVIOUS
<1>1. /\ pc = "down" /\ pc' \in {"open", "init"} /\ next' = 1
      /\ UNCHANGED <<rows, files, db, executed, interrupted, unchecked, saved, foreignKeys,
                     todo, warned, calls, made, crashes>>
  BY DEF Start, store, history
<1>2. TypeOK'
  BY <1>1 DEF CatalogueInv, TypeOK
<1>3. StartInv'
  BY <1>1 DEF CatalogueInv, StartInv
<1>4. PutInv' /\ AloneInv'
  BY <1>1, NoCalls
<1>5. SavedInv'
  BY <1>1, NoCalls, SavedKept DEF CatalogueInv
<1>6. KeptWhileChecked'
  BY <1>1 DEF CatalogueInv, KeptWhileChecked, ExecutedKept
<1> QED
  BY <1>2, <1>3, <1>4, <1>5, <1>6 DEF CatalogueInv

LEMMA CreateDatabaseStep == CatalogueInv /\ CreateDatabase => CatalogueInv'
<1> SUFFICES ASSUME CatalogueInv, CreateDatabase PROVE CatalogueInv'
  OBVIOUS
<1>1. /\ pc = "init" /\ pc' = "defaults" /\ db' = TRUE
      /\ UNCHANGED <<rows, files, executed, interrupted, unchecked, saved, foreignKeys,
                     next, todo, warned, calls, made, crashes>>
  BY DEF CreateDatabase, history
<1>2. TypeOK'
  BY <1>1 DEF CatalogueInv, TypeOK
<1>3. StartInv'
  BY <1>1 DEF CatalogueInv, StartInv
<1>4. PutInv' /\ AloneInv'
  BY <1>1, NoCalls
<1>5. SavedInv'
  BY <1>1, NoCalls, SavedKept DEF CatalogueInv
<1>6. KeptWhileChecked'
  BY <1>1 DEF CatalogueInv, KeptWhileChecked, ExecutedKept
<1> QED
  BY <1>2, <1>3, <1>4, <1>5, <1>6 DEF CatalogueInv

LEMMA DefaultType ==
  ASSUME NEW n \in Nat, n # 0, n <= Len(Defaults)
  PROVE  n \in DOMAIN Defaults /\ Defaults[n] \in Pathed /\ Defaults[n] \in Arn
<1>1. n \in 1 .. Len(Defaults)
  OBVIOUS
<1>2. n \in DOMAIN Defaults /\ Defaults[n] \in Global
  BY <1>1, CatalogueAssumption
<1> QED
  BY <1>2, CatalogueAssumption

\* Only a file that is not there is written, so what was saved stays.
LEMMA CreateDefaultsStep == CatalogueInv /\ CreateDefaults => CatalogueInv'
<1> SUFFICES ASSUME CatalogueInv, CreateDefaults PROVE CatalogueInv'
  OBVIOUS
<1> DEFINE d == Defaults[next]
<1>1. /\ pc = "defaults"
      /\ UNCHANGED <<rows, db, executed, interrupted, unchecked, saved, foreignKeys, todo,
                     warned, calls, made, crashes>>
  BY DEF CreateDefaults, history
<1>2. next \in Nat /\ next # 0 /\ files \in [Arn -> Content \cup {None, Torn}]
  BY DEF CatalogueInv, TypeOK, StartInv
<1>3. \/ pc' = "open" /\ UNCHANGED <<files, next>>
      \/ next' = next + 1 /\ UNCHANGED <<files, pc>>
      \/ /\ next <= Len(Defaults) /\ files[d] = None
         /\ files' = [files EXCEPT ![d] = Torn] /\ pc' = "write" /\ next' = next
  BY <1>2, CatalogueAssumption DEF CreateDefaults, Kept
<1>4. ASSUME next <= Len(Defaults), files[d] = None, files' = [files EXCEPT ![d] = Torn]
      PROVE  /\ next \in DOMAIN Defaults /\ files'[d] = Torn
             /\ d \in Pathed /\ d \in Arn
             /\ files' \in [Arn -> Content \cup {None, Torn}]
             /\ \A a \in Arn \ {d} : files'[a] = files[a]
  BY <1>2, <1>4, DefaultType
<1>5. TypeOK'
  <2>1. files' \in [Arn -> Content \cup {None, Torn}] /\ next' \in Nat
        /\ pc' \in {"open", "defaults", "write"}
    BY <1>1, <1>2, <1>3, <1>4
  <2> QED
    BY <1>1, <2>1 DEF CatalogueInv, TypeOK
<1>6. StartInv'
  <2>1. todo = {} /\ \A c \in Clients : calls[c] = Idle
    BY <1>1 DEF CatalogueInv, StartInv
  <2>2. pc' \in {"open", "defaults", "write"} /\ next' # 0
    BY <1>1, <1>2, <1>3
  <2>3. pc' = "write" => next' \in DOMAIN Defaults /\ files'[Defaults[next']] = Torn
    BY <1>1, <1>3, <1>4
  <2> QED
    BY <1>1, <2>1, <2>2, <2>3 DEF StartInv
<1>7. PutInv' /\ AloneInv'
  BY <1>1, NoCalls
<1>8. SavedInv'
  <2>1. ASSUME NEW a \in Arn, saved[a] # None, a \in Pathed
        PROVE  files'[a] = files[a]
    BY <1>3, <1>4, <2>1 DEF CatalogueInv, SavedInv
  <2> QED
    BY <1>1, <2>1, NoCalls, SavedKept DEF CatalogueInv
<1>9. KeptWhileChecked'
  BY <1>1 DEF CatalogueInv, KeptWhileChecked, ExecutedKept
<1> QED
  BY <1>5, <1>6, <1>7, <1>8, <1>9 DEF CatalogueInv

\* A file cut short is not what was saved.
LEMMA WriteDefaultStep == CatalogueInv /\ WriteDefault => CatalogueInv'
<1> SUFFICES ASSUME CatalogueInv, WriteDefault PROVE CatalogueInv'
  OBVIOUS
<1> DEFINE d == Defaults[next]
<1>1. /\ pc = "write" /\ pc' = "defaults" /\ next' = next + 1
      /\ files' = [files EXCEPT ![d] = Shipped[d]]
      /\ UNCHANGED <<rows, db, executed, interrupted, unchecked, saved, foreignKeys, todo,
                     warned, calls, made, crashes>>
  BY DEF WriteDefault, history
<1>2. next \in Nat /\ next \in DOMAIN Defaults /\ files[d] = Torn
  BY <1>1 DEF CatalogueInv, TypeOK, StartInv
<1>3. d \in Arn /\ Shipped[d] \in Content
  BY <1>2, CatalogueAssumption
<1>4. TypeOK'
  BY <1>1, <1>2, <1>3 DEF CatalogueInv, TypeOK
<1>5. StartInv'
  BY <1>1, <1>2 DEF CatalogueInv, StartInv
<1>6. PutInv' /\ AloneInv'
  BY <1>1, NoCalls
<1>7. SavedInv'
  <2>1. ASSUME NEW a \in Arn, saved[a] # None, a \in Pathed
        PROVE  files'[a] = files[a]
    <3>1. saved[a] = files[a] /\ saved[a] \in Content
      BY <2>1 DEF CatalogueInv, SavedInv, TypeOK
    <3>2. a # d
      BY <1>2, <3>1, CatalogueAssumption
    <3> QED
      BY <1>1, <3>2 DEF CatalogueInv, TypeOK
  <2> QED
    BY <1>1, <2>1, NoCalls, SavedKept DEF CatalogueInv
<1>8. KeptWhileChecked'
  BY <1>1 DEF CatalogueInv, KeptWhileChecked, ExecutedKept
<1> QED
  BY <1>4, <1>5, <1>6, <1>7, <1>8 DEF CatalogueInv

LEMMA OpenStep == CatalogueInv /\ Open => CatalogueInv'
<1> SUFFICES ASSUME CatalogueInv, Open PROVE CatalogueInv'
  OBVIOUS
<1>1. /\ pc = "open" /\ pc' = "register" /\ db' = TRUE /\ foreignKeys' = TRUE
      /\ todo' \subseteq Arn /\ \A a \in todo' : files[a] # None
      /\ UNCHANGED <<rows, files, executed, interrupted, unchecked, saved, next, warned, calls,
                     made, crashes>>
  BY CatalogueAssumption DEF Open, OpenDatabase, history
<1>2. TypeOK'
  BY <1>1 DEF CatalogueInv, TypeOK
<1>3. StartInv'
  BY <1>1 DEF CatalogueInv, StartInv
<1>4. PutInv' /\ AloneInv'
  BY <1>1, NoCalls
<1>5. SavedInv'
  BY <1>1, NoCalls, SavedKept DEF CatalogueInv
<1>6. KeptWhileChecked'
  BY <1>1 DEF CatalogueInv, KeptWhileChecked, ExecutedKept
<1> QED
  BY <1>2, <1>3, <1>4, <1>5, <1>6 DEF CatalogueInv

LEMMA NodeType ==
  ASSUME NEW kind \in Kinds, NEW config \in Content \cup {None}
  PROVE  Node(kind, config) \in Row /\ Node(kind, config) # None
         /\ Node(kind, config).config = config
BY CatalogueAssumption DEF Node, Row

\* A row that is there stays as it is.
LEMMA RegisterRowKeeps ==
  ASSUME rows \in [Arn -> Row \cup {None}], warned \subseteq Arn, NEW b \in Arn \cup {None},
         NEW row, b # None => row \in Row, RegisterRow(b, row)
  PROVE  /\ rows' \in [Arn -> Row \cup {None}] /\ warned' \subseteq Arn
         /\ \A x \in Arn : rows[x] # None => rows'[x] = rows[x]
BY DEF RegisterRow

LEMMA RegisterKeeps ==
  ASSUME TypeOK, NEW a \in Arn, files[a] # None,
         RegisterYamlDir(a) \/ RegisterSkillsDir(a) \/ RegisterPromptsDir(a)
  PROVE  /\ rows' \in [Arn -> Row \cup {None}] /\ warned' \subseteq Arn
         /\ \A x \in Arn : rows[x] # None => rows'[x] = rows[x]
<1>1. files[a] \in Content \cup {Torn} /\ rows \in [Arn -> Row \cup {None}] /\ warned \subseteq Arn
  BY DEF TypeOK
<1>2. /\ ExtractYamlField(files[a]) \in Arn \cup {None}
      /\ ExtractYamlField(files[a]) # None => files[a] \in Content
  BY <1>1 DEF ExtractYamlField, Content, Document
<1>3. CASE RegisterYamlDir(a)
  <2> DEFINE b == RegisteredArn(a)
  <2>1. Kind[a] \in {"workflow", "agent", "tool"} /\ b = ExtractYamlField(files[a])
    BY <1>3 DEF RegisterYamlDir, RegisteredArn
  <2>2. RegisterRow(b, Node(Kind[a], IF b = None THEN None ELSE AsJson(files[a])))
    BY <1>3 DEF RegisterYamlDir
  <2>3. b # None => Node(Kind[a], IF b = None THEN None ELSE AsJson(files[a])) \in Row
    BY <1>2, <2>1, AsJsonType, NodeType DEF Kinds
  <2> HIDE DEF b
  <2> QED
    BY <1>1, <1>2, <2>1, <2>2, <2>3, RegisterRowKeeps
<1>4. CASE RegisterSkillsDir(a) \/ RegisterPromptsDir(a)
  <2>1. Node("skill", None) \in Row /\ Node("prompt", None) \in Row
    BY NodeType DEF Kinds
  <2> QED
    BY <1>1, <1>4, <2>1, RegisterRowKeeps DEF RegisterSkillsDir, RegisterPromptsDir
<1> QED
  BY <1>3, <1>4

LEMMA RegisterStep == CatalogueInv /\ Register => CatalogueInv'
<1> SUFFICES ASSUME CatalogueInv, Register PROVE CatalogueInv'
  OBVIOUS
<1>1. PICK a \in todo : /\ todo' = todo \ {a}
                        /\ RegisterYamlDir(a) \/ RegisterSkillsDir(a) \/ RegisterPromptsDir(a)
  BY DEF Register
<1>2. /\ pc = "register"
      /\ UNCHANGED <<files, db, executed, interrupted, unchecked, saved, foreignKeys, pc,
                     next, calls, made, crashes>>
  BY DEF Register, history
<1>3. a \in Arn /\ files[a] # None /\ TypeOK
  BY DEF CatalogueInv, StartInv
<1>4. /\ rows' \in [Arn -> Row \cup {None}] /\ warned' \subseteq Arn
      /\ \A x \in Arn : rows[x] # None => rows'[x] = rows[x]
  BY <1>1, <1>3, RegisterKeeps
<1>5. TypeOK'
  BY <1>1, <1>2, <1>4 DEF CatalogueInv, TypeOK
<1>6. StartInv'
  BY <1>1, <1>2 DEF CatalogueInv, StartInv
<1>7. PutInv' /\ AloneInv'
  BY <1>2, NoCalls
<1>8. SavedInv'
  <2>1. ASSUME NEW x \in Arn, saved[x] # None
        PROVE  rows'[x] = rows[x]
    BY <1>4, <2>1 DEF CatalogueInv, SavedInv
  <2> QED
    BY <1>2, <2>1, NoCalls, SavedKept DEF CatalogueInv
<1>9. KeptWhileChecked'
  <2>1. executed \subseteq Arn
    BY DEF CatalogueInv, TypeOK
  <2> QED
    BY <1>2, <1>4, <2>1, ExecutedStay DEF CatalogueInv
<1> QED
  BY <1>5, <1>6, <1>7, <1>8, <1>9 DEF CatalogueInv

LEMMA ListenStep == CatalogueInv /\ Listen => CatalogueInv'
<1> SUFFICES ASSUME CatalogueInv, Listen PROVE CatalogueInv'
  OBVIOUS
<1>1. /\ pc = "register" /\ todo = {} /\ pc' = "up"
      /\ warned' = {}
      /\ UNCHANGED <<rows, files, db, executed, interrupted, unchecked, saved, foreignKeys,
                     next, todo, calls, made, crashes>>
  BY DEF Listen, store, history
<1>2. TypeOK'
  BY <1>1 DEF CatalogueInv, TypeOK
<1>3. StartInv'
  BY <1>1 DEF CatalogueInv, StartInv
<1>4. PutInv' /\ AloneInv'
  BY <1>1, NoCalls
<1>5. SavedInv'
  BY <1>1, NoCalls, SavedKept DEF CatalogueInv
<1>6. KeptWhileChecked'
  BY <1>1 DEF CatalogueInv, KeptWhileChecked, ExecutedKept
<1> QED
  BY <1>2, <1>3, <1>4, <1>5, <1>6 DEF CatalogueInv

\* Calls are gone; what they were about to do to a saved text was nothing.
LEMMA CrashStep == CatalogueInv /\ Crash => CatalogueInv'
<1> SUFFICES ASSUME CatalogueInv, Crash PROVE CatalogueInv'
  OBVIOUS
<1>1. /\ pc' = "down" /\ todo' = {} /\ warned' = {} /\ foreignKeys' = FALSE
      /\ crashes < MaxCrashes /\ crashes' = crashes + 1 /\ calls' = [c \in Clients |-> Idle]
      /\ UNCHANGED <<rows, files, db, executed, next, made, saved, unchecked>>
  BY DEF Crash, store
<1>2. interrupted' \in BOOLEAN
  BY Zenon DEF Crash
<1>3. \A x \in Clients : \A a : ~Changing(x, a)'
  BY <1>1 DEF Changing
<1>4. TypeOK'
  <2>1. crashes' \in 0 .. MaxCrashes
    BY <1>1, CatalogueAssumption DEF CatalogueInv, TypeOK
  <2>2. calls' \in [Clients -> Call \cup {Idle}]
    BY <1>1
  <2> QED
    BY <1>1, <1>2, <2>1, <2>2 DEF CatalogueInv, TypeOK
<1>5. StartInv'
  BY <1>1 DEF CatalogueInv, StartInv
<1>6. PutInv' /\ AloneInv'
  BY <1>1 DEF PutInv, AloneInv
<1>7. SavedInv'
  BY <1>1, <1>3, SavedKept DEF CatalogueInv
<1>8. KeptWhileChecked'
  BY <1>1 DEF CatalogueInv, KeptWhileChecked, ExecutedKept
<1> QED
  BY <1>4, <1>5, <1>6, <1>7, <1>8 DEF CatalogueInv

-------------------------------------------------------------------------------
\* The calls.

\* While a call is in progress the server is up.
LEMMA CallUp ==
  ASSUME CatalogueInv, NEW c \in Clients, calls[c] # Idle
  PROVE  pc = "up" /\ calls[c] \in Call /\ todo = {} /\ (~unchecked => foreignKeys)
BY DEF CatalogueInv, StartInv, TypeOK

\* A call that changes a begins, and at most the row of a is replaced.
LEMMA BeginStep ==
  ASSUME CatalogueInv, NEW c \in Clients, NEW a \in Arn, NEW call \in Call \cup {Idle},
         Begin(c, a, call),
         call # Idle => /\ call.arn = a /\ call.op # "execute"
                        /\ call.alone => \A x \in Clients : ~Changing(x, a),
         call # Idle /\ call.op = "put" =>
           /\ call.text \in Content
           /\ a \in Pathed => call.step # 3
           /\ call.step # 3 => a \in Pathed,
         rows' \in [Arn -> Row \cup {None}], \A b \in Arn \ {a} : rows'[b] = rows[b],
         rows[a] # None => rows'[a] # None,
         UNCHANGED <<files, db, executed, pc, next, todo, warned, foreignKeys, crashes, interrupted,
                     unchecked>>
  PROVE  CatalogueInv'
<1>1. /\ TypeOK /\ StartInv /\ PutInv /\ AloneInv /\ SavedInv /\ KeptWhileChecked
      /\ saved \in [Arn -> Content \cup {None}]
  BY DEF CatalogueInv, TypeOK
<1>2. /\ calls' \in [Clients -> Call \cup {Idle}] /\ calls'[c] = call
      /\ \A x \in Clients \ {c} :
           /\ calls'[x] = Idle <=> calls[x] = Idle
           /\ calls[x] # Idle => /\ calls'[x].op = calls[x].op /\ calls'[x].arn = calls[x].arn
                                 /\ calls'[x].text = calls[x].text
                                 /\ calls'[x].step = calls[x].step
                                 /\ calls'[x].alone => calls[x].alone /\ ~Changing(x, a)
      /\ AloneInv'
  BY <1>1, BeginCalls
<1>3. pc = "up" /\ made < MaxCalls /\ made' = made + 1 /\ saved' = [saved EXCEPT ![a] = None]
  BY DEF Begin, Free
<1>4. TypeOK'
  <2>1. made' \in 0 .. MaxCalls
    BY <1>1, <1>3, CatalogueAssumption DEF TypeOK
  <2>2. saved' \in [Arn -> Content \cup {None}]
    BY <1>1, <1>3
  <2> QED
    BY <1>1, <1>2, <2>1, <2>2 DEF TypeOK
<1>5. StartInv'
  BY <1>1, <1>3 DEF StartInv
<1>6. PutInv'
  <2> SUFFICES ASSUME NEW x \in Clients, calls'[x] # Idle, calls'[x].op = "put"
               PROVE  /\ calls'[x].text \in Content
                      /\ calls'[x].step = 3 /\ calls'[x].alone /\ calls'[x].arn \in Pathed
                           => files[calls'[x].arn] = calls'[x].text
                      /\ calls'[x].step # 3 => calls'[x].arn \in Pathed
    BY DEF PutInv
  <2>1. CASE x = c
    BY <1>2, <2>1
  <2>2. CASE x # c
    BY <1>1, <1>2, <2>2 DEF PutInv
  <2> QED
    BY <2>1, <2>2
<1>7. SavedInv'
  <2> SUFFICES ASSUME NEW b \in Arn, saved'[b] # None
               PROVE  /\ saved'[b] = saved[b]
                      /\ \A x \in Clients : Changing(x, b)' => Changing(x, b)
                      /\ rows'[b] = rows[b] /\ (b \in Pathed => files'[b] = files[b])
    BY <1>1, SavedKept
  <2>1. b # a /\ saved'[b] = saved[b]
    BY <1>1, <1>3
  <2>2. \A x \in Clients : Changing(x, b)' => Changing(x, b)
    BY <1>2, <2>1 DEF Changing
  <2> QED
    BY <2>1, <2>2
<1>8. KeptWhileChecked'
  <2>1. executed \subseteq Arn /\ \A b \in Arn : rows[b] # None => rows'[b] # None
    BY <1>1 DEF TypeOK
  <2> QED
    BY <1>1, <2>1, ExecutedStay
<1> QED
  BY <1>2, <1>4, <1>5, <1>6, <1>7, <1>8 DEF CatalogueInv

\* A call ends and leaves the files alone.
LEMMA EndStep ==
  ASSUME CatalogueInv, NEW c \in Clients, calls[c] # Idle, End(c),
         rows' \in [Arn -> Row \cup {None}], saved' \in [Arn -> Content \cup {None}],
         executed' \subseteq Arn,
         UNCHANGED <<files, db, pc, next, todo, warned, foreignKeys, made, crashes, interrupted,
                     unchecked>>
  PROVE  /\ TypeOK' /\ StartInv' /\ PutInv' /\ AloneInv'
         /\ \A x \in Clients : \A b : Changing(x, b)' => Changing(x, b)
<1>1. TypeOK /\ StartInv /\ PutInv /\ AloneInv
  BY DEF CatalogueInv
<1>2. /\ calls' \in [Clients -> Call \cup {Idle}] /\ calls'[c] = Idle
      /\ \A x \in Clients \ {c} : calls'[x] = calls[x]
      /\ \A x \in Clients : \A b : Changing(x, b)' => Changing(x, b)
      /\ AloneInv'
  BY <1>1, EndCalls
<1>3. TypeOK'
  BY <1>1, <1>2 DEF TypeOK
<1>4. StartInv'
  BY <1>1, CallUp DEF StartInv
<1>5. PutInv'
  BY <1>1, <1>2 DEF PutInv
<1> QED
  BY <1>2, <1>3, <1>4, <1>5

LEMMA ChangingNow ==
  ASSUME CatalogueInv, NEW c \in Clients, calls[c] # Idle, calls[c].op # "execute"
  PROVE  Changing(c, calls[c].arn) /\ calls[c].arn \in Arn /\ saved[calls[c].arn] = None
<1>1. calls[c] \in Call /\ calls[c].arn \in Arn
  BY CallUp, CallType
<1> QED
  BY <1>1 DEF CatalogueInv, SavedInv, Changing

LEMMA CreateStep ==
  ASSUME CatalogueInv, NEW c \in Clients, NEW a \in Arn, NEW v \in Values, Create(c, a, v)
  PROVE  CatalogueInv'
<1> DEFINE node == Node(Kind[a], BuildConfig(Kind[a], v))
<1>1. /\ Begin(c, a, Idle) /\ rows' = [rows EXCEPT ![a] = node]
      /\ UNCHANGED <<files, db, executed, pc, next, todo, warned, foreignKeys, crashes, interrupted,
                     unchecked>>
  BY DEF Create, SaveNode, startup
<1>2. node \in Row /\ node # None
  BY BuildType, NodeType, CatalogueAssumption
<1> HIDE DEF node
<1>3. /\ rows' \in [Arn -> Row \cup {None}] /\ rows'[a] # None
      /\ \A b \in Arn \ {a} : rows'[b] = rows[b]
  BY <1>1, <1>2 DEF CatalogueInv, TypeOK
<1> QED
  BY <1>1, <1>3, BeginStep

\* A call that has only read begins.
LEMMA ReadStep ==
  ASSUME CatalogueInv, NEW c \in Clients, NEW a \in Arn, NEW op \in {"update", "delete", "put"},
         NEW kind \in Kinds, NEW text \in Content \cup {None}, NEW v \in Values \cup {Blank},
         NEW step \in Nat, rows[a] # None, Begin(c, a, Request(op, a, kind, text, v, step)),
         op = "put" => /\ text \in Content
                       /\ step = IF a \in Pathed THEN 1 ELSE 3,
         UNCHANGED <<store, startup, foreignKeys, crashes, interrupted, unchecked>>
  PROVE  CatalogueInv'
<1> DEFINE call == Request(op, a, kind, text, v, step)
<1>1. /\ call \in Call /\ call.op = op /\ call.arn = a /\ call.text = text /\ call.step = step
      /\ call.alone => \A x \in Clients : ~Changing(x, a)
  BY RequestType DEF CatalogueInv
<1> HIDE DEF call
<1>2. Begin(c, a, call)
  BY DEF call
<1>3. rows' \in [Arn -> Row \cup {None}] /\ rows' = rows
      /\ UNCHANGED <<files, db, executed, pc, next, todo, warned, foreignKeys, crashes, interrupted,
                     unchecked>>
  BY DEF CatalogueInv, TypeOK, store, startup
<1> QED
  BY <1>1, <1>2, <1>3, BeginStep

LEMMA ReadToUpdateStep ==
  ASSUME CatalogueInv, NEW c \in Clients, NEW a \in Arn, NEW kind \in Kinds, NEW v \in Values,
         ReadToUpdate(c, a, kind, v)
  PROVE  CatalogueInv'
BY ReadStep DEF ReadToUpdate

LEMMA ReadToDeleteStep ==
  ASSUME CatalogueInv, NEW c \in Clients, NEW a \in Arn, ReadToDelete(c, a)
  PROVE  CatalogueInv'
<1>1. Kind[a] \in Kinds
  BY CatalogueAssumption
<1> QED
  BY <1>1, ReadStep DEF ReadToDelete

LEMMA ReadToPutStep ==
  ASSUME CatalogueInv, NEW c \in Clients, NEW a \in Arn, NEW text \in Texts[a],
         ReadToPut(c, a, text)
  PROVE  CatalogueInv'
<1>1. Kind[a] \in Kinds /\ text \in Content
  BY CatalogueAssumption
<1>2. (IF a \in Pathed THEN 1 ELSE 3) \in Nat
  OBVIOUS
<1> QED
  BY <1>1, <1>2, ReadStep DEF ReadToPut

LEMMA UpdateStep ==
  ASSUME CatalogueInv, NEW c \in Clients, Update(c)
  PROVE  CatalogueInv'
<1> DEFINE a == calls[c].arn
           node == Node(calls[c].kind, ApplyUpdate(calls[c].kind, ReadYaml(calls[c].row.config),
                                                   calls[c].value))
<1>1. /\ calls[c] # Idle /\ calls[c].op = "update" /\ End(c)
      /\ rows' = [rows EXCEPT ![a] = node]
      /\ UNCHANGED <<files, db, executed, pc, next, todo, warned, foreignKeys, made, crashes,
                     interrupted, unchecked, saved>>
  BY DEF Update, At, SaveNode, startup, history
<1>2. /\ calls[c].kind \in Kinds /\ calls[c].value \in Values \cup {Blank} /\ a \in Arn
      /\ calls[c].row.config \in Content \cup {None}
  BY <1>1, CallUp, CallType DEF Row
<1>3. node \in Row /\ node # None
  BY <1>2, ReadYamlType, UpdateType, NodeType
<1> HIDE DEF node
<1>4. /\ rows' \in [Arn -> Row \cup {None}] /\ rows'[a] # None
      /\ \A b \in Arn \ {a} : rows'[b] = rows[b]
  BY <1>1, <1>2, <1>3 DEF CatalogueInv, TypeOK
<1>5. /\ TypeOK' /\ StartInv' /\ PutInv' /\ AloneInv'
      /\ \A x \in Clients : \A b : Changing(x, b)' => Changing(x, b)
  BY <1>1, <1>4, EndStep DEF CatalogueInv, TypeOK
<1>6. SavedInv'
  BY <1>1, <1>4, <1>5, ChangingNow, SavedKept DEF CatalogueInv
<1>7. KeptWhileChecked'
  BY <1>1, <1>4, ExecutedStay DEF CatalogueInv, TypeOK
<1> QED
  BY <1>5, <1>6, <1>7 DEF CatalogueInv

\* Without a setting that was turned off, no execution loses its workflow.
LEMMA DeleteStep ==
  ASSUME CatalogueInv, NEW c \in Clients, Delete(c)
  PROVE  CatalogueInv'
<1> DEFINE a == calls[c].arn
<1>1. /\ calls[c] # Idle /\ calls[c].op = "delete" /\ End(c)
      /\ IF Referenced(a) THEN rows' = rows ELSE rows' = [rows EXCEPT ![a] = None]
      /\ UNCHANGED <<files, db, executed, pc, next, todo, warned, foreignKeys, made, crashes,
                     interrupted, unchecked, saved>>
  BY DEF Delete, At, startup, history
<1>2. a \in Arn /\ (~unchecked => foreignKeys)
  BY <1>1, CallUp, CallType
<1>3. /\ rows' \in [Arn -> Row \cup {None}]
      /\ \A b \in Arn \ {a} : rows'[b] = rows[b]
  BY <1>1, <1>2 DEF CatalogueInv, TypeOK
<1>4. /\ TypeOK' /\ StartInv' /\ PutInv' /\ AloneInv'
      /\ \A x \in Clients : \A b : Changing(x, b)' => Changing(x, b)
  BY <1>1, <1>3, EndStep DEF CatalogueInv, TypeOK
<1>5. SavedInv'
  BY <1>1, <1>3, <1>4, ChangingNow, SavedKept DEF CatalogueInv
<1>6. KeptWhileChecked'
  <2> SUFFICES ASSUME ~unchecked, NEW b \in executed PROVE rows'[b] # None
    BY <1>1 DEF KeptWhileChecked, ExecutedKept
  <2>1. rows[b] # None /\ b \in Arn
    BY DEF CatalogueInv, TypeOK, KeptWhileChecked, ExecutedKept
  <2>2. CASE b = a
    BY <1>1, <1>2, <2>1, <2>2 DEF Referenced
  <2>3. CASE b # a
    BY <1>3, <2>1, <2>3
  <2> QED
    BY <2>2, <2>3
<1> QED
  BY <1>4, <1>5, <1>6 DEF CatalogueInv

\* put_content writes the file: nobody else's text is in it, and the row follows.
LEMMA FileStep ==
  ASSUME CatalogueInv, NEW c \in Clients, NEW file \in Content \cup {Torn},
         calls[c] # Idle, calls[c].op = "put", calls[c].step \in {1, 2}, Advance(c),
         files' = [files EXCEPT ![calls[c].arn] = file],
         calls[c].step = 2 => file = calls[c].text,
         UNCHANGED <<rows, db, executed, startup, history, foreignKeys, made, crashes>>
  PROVE  CatalogueInv'
<1> DEFINE a == calls[c].arn
<1>1. /\ TypeOK /\ StartInv /\ PutInv /\ AloneInv /\ SavedInv /\ KeptWhileChecked
      /\ files \in [Arn -> Content \cup {None, Torn}]
  BY DEF CatalogueInv, TypeOK
<1>2. Changing(c, a) /\ a \in Arn /\ saved[a] = None
  BY ChangingNow
<1>3. pc = "up" /\ todo = {} /\ calls[c].step \in Nat
  BY CallUp, CallType
<1>4. /\ calls' \in [Clients -> Call \cup {Idle}]
      /\ calls'[c] \in Call /\ calls'[c].step = calls[c].step + 1
      /\ calls'[c].op = calls[c].op /\ calls'[c].arn = calls[c].arn
      /\ calls'[c].text = calls[c].text /\ calls'[c].alone = calls[c].alone
      /\ \A x \in Clients \ {c} : calls'[x] = calls[x]
      /\ \A x \in Clients : \A b : Changing(x, b)' => Changing(x, b)
      /\ AloneInv'
  BY <1>1, AdvanceCalls
<1>5. /\ files' \in [Arn -> Content \cup {None, Torn}] /\ files'[a] = file
      /\ \A b \in Arn \ {a} : files'[b] = files[b]
  BY <1>1, <1>2
<1>6. UNCHANGED <<rows, db, executed, pc, next, todo, warned, interrupted, unchecked, saved,
                  foreignKeys, made, crashes>>
  BY DEF startup, history
<1>7. TypeOK'
  BY <1>1, <1>4, <1>5, <1>6 DEF TypeOK
<1>8. StartInv'
  BY <1>1, <1>3, <1>6 DEF StartInv
<1>9. PutInv'
  <2> SUFFICES ASSUME NEW x \in Clients, calls'[x] # Idle, calls'[x].op = "put"
               PROVE  /\ calls'[x].text \in Content
                      /\ calls'[x].step = 3 /\ calls'[x].alone /\ calls'[x].arn \in Pathed
                           => files'[calls'[x].arn] = calls'[x].text
                      /\ calls'[x].step # 3 => calls'[x].arn \in Pathed
    BY DEF PutInv
  <2>1. CASE x = c
    <3>1. calls[c].text \in Content /\ a \in Pathed
      BY <1>1 DEF PutInv
    <3> QED
      BY <1>3, <1>4, <1>5, <2>1, <3>1
  <2>2. CASE x # c
    <3>1. calls'[x] = calls[x]
      BY <1>4, <2>2
    <3>2. calls[x].arn \in Arn
      BY <1>1, <3>1, CallUp, CallType
    <3>3. calls[x].alone => calls[x].arn # a
      BY <1>1, <1>2, <2>2, <3>1 DEF AloneInv
    <3> QED
      BY <1>1, <1>5, <3>1, <3>2, <3>3 DEF PutInv
  <2> QED
    BY <2>1, <2>2
<1>10. SavedInv'
  BY <1>1, <1>2, <1>4, <1>5, <1>6, SavedKept
<1>11. KeptWhileChecked'
  BY <1>1, <1>6 DEF KeptWhileChecked, ExecutedKept
<1> QED
  BY <1>4, <1>7, <1>8, <1>9, <1>10, <1>11 DEF CatalogueInv

LEMMA TruncateStep ==
  ASSUME CatalogueInv, NEW c \in Clients, TruncateFile(c)
  PROVE  CatalogueInv'
<1>1. /\ calls[c] # Idle /\ calls[c].op = "put" /\ calls[c].step = 1 /\ Advance(c)
      /\ files' = [files EXCEPT ![calls[c].arn] = Torn]
      /\ UNCHANGED <<rows, db, executed, startup, history, foreignKeys, made, crashes>>
  BY DEF TruncateFile, At
<1>2. Torn \in Content \cup {Torn} /\ calls[c].step \in {1, 2} /\ calls[c].step # 2
  BY <1>1
<1> QED
  BY <1>1, <1>2, FileStep

LEMMA WriteStep ==
  ASSUME CatalogueInv, NEW c \in Clients, WriteFile(c)
  PROVE  CatalogueInv'
<1>1. calls[c].text \in Content
  BY DEF WriteFile, At, CatalogueInv, PutInv
<1> QED
  BY <1>1, FileStep DEF WriteFile, At

LEMMA FailToWriteStep ==
  ASSUME CatalogueInv, NEW c \in Clients, FailToWrite(c)
  PROVE  CatalogueInv'
<1>1. /\ calls[c] # Idle /\ End(c)
      /\ UNCHANGED <<rows, files, db, executed, pc, next, todo, warned, foreignKeys, made, crashes,
                     interrupted, unchecked, saved>>
  BY DEF FailToWrite, At, store, startup, history
<1>2. /\ TypeOK' /\ StartInv' /\ PutInv' /\ AloneInv'
      /\ \A x \in Clients : \A b : Changing(x, b)' => Changing(x, b)
  BY <1>1, EndStep DEF CatalogueInv, TypeOK
<1>3. SavedInv' /\ KeptWhileChecked'
  BY <1>1, <1>2, SavedKept, ExecutedStay DEF CatalogueInv, TypeOK
<1> QED
  BY <1>2, <1>3 DEF CatalogueInv

\* The row follows the file.  If the call was alone, nobody changes either any more.
LEMMA PutContentStep ==
  ASSUME CatalogueInv, NEW c \in Clients, PutContent(c)
  PROVE  CatalogueInv'
<1> DEFINE a == calls[c].arn
           row == WithContent(calls[c].row, calls[c].text)
<1>1. /\ calls[c] # Idle /\ calls[c].op = "put" /\ calls[c].step = 3 /\ End(c)
      /\ rows' = [rows EXCEPT ![a] = row]
      /\ saved' = IF calls[c].alone THEN [saved EXCEPT ![a] = calls[c].text] ELSE saved
      /\ UNCHANGED <<files, db, executed, pc, next, todo, warned, foreignKeys, made, crashes,
                     interrupted, unchecked>>
  BY DEF PutContent, At, SaveNode, startup
<1>2. /\ TypeOK /\ PutInv /\ AloneInv /\ SavedInv /\ KeptWhileChecked
      /\ rows \in [Arn -> Row \cup {None}] /\ saved \in [Arn -> Content \cup {None}]
  BY DEF CatalogueInv, TypeOK
<1>3. /\ a \in Arn /\ saved[a] = None /\ calls[c].row \in Row
      /\ calls[c].text \in Content
      /\ calls[c].alone /\ a \in Pathed => files[a] = calls[c].text
      /\ calls[c].alone => \A x \in Clients \ {c} : ~Changing(x, a)
  BY <1>1, <1>2, CallUp, CallType, ChangingNow DEF PutInv, AloneInv
<1>4. row \in Row /\ row # None /\ row.config = calls[c].text
  BY <1>3, CatalogueAssumption DEF WithContent, Row
<1> HIDE DEF row
<1>5. /\ rows' \in [Arn -> Row \cup {None}] /\ rows'[a] = row
      /\ \A b \in Arn \ {a} : rows'[b] = rows[b]
      /\ saved' \in [Arn -> Content \cup {None}]
      /\ \A b \in Arn \ {a} : saved'[b] = saved[b]
      /\ saved'[a] # None => calls[c].alone /\ saved'[a] = calls[c].text
  BY <1>1, <1>2, <1>3, <1>4
<1>6. /\ TypeOK' /\ StartInv' /\ PutInv' /\ AloneInv'
      /\ \A x \in Clients : \A b : Changing(x, b)' => Changing(x, b)
  BY <1>1, <1>2, <1>5, EndStep DEF TypeOK
<1>7. SavedInv'
  <2> SUFFICES ASSUME NEW b \in Arn, saved'[b] # None
               PROVE  /\ \A x \in Clients : ~Changing(x, b)'
                      /\ rows'[b] # None /\ rows'[b].config = saved'[b]
                      /\ b \in Pathed => files'[b] = saved'[b]
    BY DEF SavedInv
  <2>1. CASE b = a
    <3>1. ~Changing(c, b)'
      BY <1>1, <1>2, EndCalls DEF Changing
    <3>2. calls[c].alone /\ saved'[b] = calls[c].text
      BY <1>5, <2>1
    <3>3. \A x \in Clients \ {c} : ~Changing(x, b)
      BY <1>3, <2>1, <3>2
    <3>4. \A x \in Clients : ~Changing(x, b)'
      BY <1>6, <3>1, <3>3
    <3>5. /\ rows'[b] # None /\ rows'[b].config = saved'[b]
          /\ b \in Pathed => files'[b] = saved'[b]
      BY <1>1, <1>3, <1>4, <1>5, <2>1, <3>2
    <3> QED
      BY <3>4, <3>5
  <2>2. CASE b # a
    BY <1>1, <1>2, <1>5, <1>6, <2>2 DEF SavedInv
  <2> QED
    BY <2>1, <2>2
<1>8. KeptWhileChecked'
  BY <1>1, <1>2, <1>4, <1>5, ExecutedStay DEF TypeOK
<1> QED
  BY <1>6, <1>7, <1>8 DEF CatalogueInv

\* A call that executes a workflow changes no text, so it is in nobody's way.
LEMMA ReadToExecuteStep ==
  ASSUME CatalogueInv, NEW c \in Clients, NEW a \in Arn, ReadToExecute(c, a)
  PROVE  CatalogueInv'
<1> DEFINE call == Request("execute", a, Kind[a], None, Blank, 1)
<1>1. /\ rows[a] # None /\ pc = "up" /\ calls[c] = Idle
      /\ made < MaxCalls /\ made' = made + 1 /\ calls' = [calls EXCEPT ![c] = call]
      /\ UNCHANGED <<rows, files, db, executed, pc, next, todo, warned, interrupted, unchecked, saved,
                     foreignKeys, crashes>>
  BY DEF ReadToExecute, Free, store, startup, history
<1>2. Kind[a] \in Kinds
  BY CatalogueAssumption
<1>3. call \in Call /\ call.op = "execute" /\ call # Idle
  <2>1. /\ TypeOK /\ rows[a] # None /\ "execute" \in {"update", "delete", "put", "execute"}
        /\ None \in Content \cup {None} /\ Blank \in Values \cup {Blank} /\ 1 \in Nat
    BY <1>1 DEF CatalogueInv
  <2>2. PICK op \in {"update", "delete", "put", "execute"} : op = "execute"
    BY <2>1
  <2>3. PICK kind \in Kinds : kind = Kind[a]
    BY <1>2
  <2>4. PICK text \in Content \cup {None} : text = None
    BY <2>1
  <2>5. PICK v \in Values \cup {Blank} : v = Blank
    BY <2>1
  <2>6. PICK step \in Nat : step = 1
    OBVIOUS
  <2>7. /\ Request(op, a, kind, text, v, step) \in Call
        /\ Request(op, a, kind, text, v, step).op = op
    BY <2>1, RequestType
  <2>8. call \in Call /\ call.op = "execute"
    BY <2>2, <2>3, <2>4, <2>5, <2>6, <2>7
  <2> HIDE DEF call
  <2> QED
    BY <2>8, CallType
<1> HIDE DEF call
<1>4. /\ TypeOK /\ StartInv /\ PutInv /\ AloneInv /\ SavedInv /\ KeptWhileChecked
      /\ calls \in [Clients -> Call \cup {Idle}]
  BY DEF CatalogueInv, TypeOK
<1>5. /\ calls' \in [Clients -> Call \cup {Idle}] /\ calls'[c] = call
      /\ \A x \in Clients \ {c} : calls'[x] = calls[x]
  BY <1>1, <1>3, <1>4
<1>6. \A x \in Clients : \A b : Changing(x, b)' => Changing(x, b)
  BY <1>3, <1>5 DEF Changing
<1>7. TypeOK'
  <2>1. made' \in 0 .. MaxCalls
    BY <1>1, <1>4, CatalogueAssumption DEF TypeOK
  <2> QED
    BY <1>1, <1>4, <1>5, <2>1 DEF TypeOK
<1>8. StartInv'
  BY <1>1, <1>4 DEF StartInv
<1>9. PutInv'
  BY <1>1, <1>3, <1>4, <1>5 DEF PutInv
<1>10. AloneInv'
  BY <1>3, <1>4, <1>5, <1>6 DEF AloneInv
<1>11. SavedInv' /\ KeptWhileChecked'
  BY <1>1, <1>4, <1>6, SavedKept, ExecutedStay DEF TypeOK
<1> QED
  BY <1>7, <1>8, <1>9, <1>10, <1>11 DEF CatalogueInv

\* The foreign key refuses an execution whose workflow was deleted since it was read.
LEMMA InsertExecutionStep ==
  ASSUME CatalogueInv, NEW c \in Clients, InsertExecution(c)
  PROVE  CatalogueInv'
<1> DEFINE a == calls[c].arn
<1>1. /\ calls[c] # Idle /\ End(c)
      /\ executed' = IF foreignKeys /\ rows[a] = None THEN executed ELSE executed \cup {a}
      /\ UNCHANGED <<rows, files, db, pc, next, todo, warned, foreignKeys, made, crashes,
                     interrupted, unchecked, saved>>
  BY DEF InsertExecution, At, startup, history
<1>2. a \in Arn /\ (~unchecked => foreignKeys)
  BY <1>1, CallUp, CallType
<1>3. executed' \subseteq Arn
  BY <1>1, <1>2 DEF CatalogueInv, TypeOK
<1>4. /\ TypeOK' /\ StartInv' /\ PutInv' /\ AloneInv'
      /\ \A x \in Clients : \A b : Changing(x, b)' => Changing(x, b)
  BY <1>1, <1>3, EndStep DEF CatalogueInv, TypeOK
<1>5. SavedInv'
  BY <1>1, <1>4, SavedKept DEF CatalogueInv
<1>6. KeptWhileChecked'
  BY <1>1, <1>2 DEF CatalogueInv, KeptWhileChecked, ExecutedKept
<1> QED
  BY <1>4, <1>5, <1>6 DEF CatalogueInv

LEMMA CreateArtifactStep ==
  ASSUME CatalogueInv, NEW c \in Clients, CreateArtifact(c)
  PROVE  CatalogueInv'
<1>1. /\ pc = "up" /\ made < MaxCalls /\ made' = made + 1
      /\ foreignKeys' = FALSE /\ unchecked' = TRUE
      /\ UNCHANGED <<rows, files, db, executed, pc, next, todo, warned, calls, crashes, interrupted,
                     saved>>
  BY DEF CreateArtifact, Free, store, startup
<1>2. TypeOK'
  <2>1. made' \in 0 .. MaxCalls
    BY <1>1, CatalogueAssumption DEF CatalogueInv, TypeOK
  <2> QED
    BY <1>1, <2>1 DEF CatalogueInv, TypeOK
<1>3. StartInv'
  BY <1>1 DEF CatalogueInv, StartInv
<1>4. PutInv'
  BY <1>1 DEF CatalogueInv, PutInv
<1>5. AloneInv'
  BY <1>1 DEF CatalogueInv, AloneInv, Changing
<1>6. SavedInv'
  BY <1>1 DEF CatalogueInv, SavedInv, Changing
<1>7. KeptWhileChecked'
  BY <1>1 DEF KeptWhileChecked
<1> QED
  BY <1>2, <1>3, <1>4, <1>5, <1>6, <1>7 DEF CatalogueInv

LEMMA ResourceStep ==
  ASSUME CatalogueInv, NEW c \in Clients, NEW kind \in Kinds, ResourceCalls(c, kind)
  PROVE  CatalogueInv'
BY CreateStep, ReadToUpdateStep, ReadToDeleteStep DEF ResourceCalls

LEMMA RouteStep ==
  ASSUME CatalogueInv, NEW c \in Clients, Route(c)
  PROVE  CatalogueInv'
<1>1. ASSUME NEW kind \in Kinds, ResourceCalls(c, kind)
      PROVE  CatalogueInv'
  BY <1>1, ResourceStep
<1>2. CASE \/ WorkflowCalls(c) \/ AgentCalls(c) \/ SkillCalls(c)
           \/ PromptCalls(c) \/ ToolCalls(c) \/ TemplateCalls(c)
  BY <1>1, <1>2 DEF Kinds, WorkflowCalls, AgentCalls, SkillCalls, PromptCalls, ToolCalls,
     TemplateCalls
<1>3. ASSUME NEW a \in Arn, ReadToExecute(c, a)
      PROVE  CatalogueInv'
  BY <1>3, ReadToExecuteStep
<1>4. ASSUME NEW a \in Arn, NEW text \in Texts[a], ReadToPut(c, a, text)
      PROVE  CatalogueInv'
  BY <1>4, ReadToPutStep
<1>5. CASE CreateArtifact(c)
  BY <1>5, CreateArtifactStep
<1> QED
  BY <1>2, <1>3, <1>4, <1>5 DEF Route

LEMMA ContinueStep ==
  ASSUME CatalogueInv, NEW c \in Clients, Continue(c)
  PROVE  CatalogueInv'
BY UpdateStep, DeleteStep, InsertExecutionStep, TruncateStep, WriteStep, FailToWriteStep,
   PutContentStep DEF Continue

LEMMA StartServerStep == CatalogueInv /\ StartServer => CatalogueInv'
BY CreateDatabaseStep, CreateDefaultsStep, WriteDefaultStep, OpenStep, RegisterStep, ListenStep
   DEF StartServer

LEMMA CatalogueStep == CatalogueInv /\ [Next]_vars => CatalogueInv'
<1> SUFFICES ASSUME CatalogueInv, [Next]_vars PROVE CatalogueInv'
  OBVIOUS
<1>1. CASE Start \/ StartServer \/ Crash
  BY <1>1, StartStep, StartServerStep, CrashStep
<1>2. ASSUME NEW c \in Clients, Route(c) \/ Continue(c)
      PROVE  CatalogueInv'
  BY <1>2, RouteStep, ContinueStep
<1>3. CASE UNCHANGED vars
  <2>1. UNCHANGED <<rows, files, db, executed, pc, next, todo, warned, interrupted, unchecked, saved,
                    foreignKeys, calls, made, crashes>>
    BY <1>3 DEF vars, store, startup, history
  <2> QED
    BY <2>1 DEF CatalogueInv, TypeOK, StartInv, PutInv, AloneInv, SavedInv, KeptWhileChecked,
       ExecutedKept, Changing
<1> QED
  BY <1>1, <1>2, <1>3 DEF Next

LEMMA CatalogueInvariant == Spec => []CatalogueInv
<1> QED
  BY InitInv, CatalogueStep, PTL DEF Spec

-------------------------------------------------------------------------------
\* The results.

\* Rows, files and calls keep their types, for every catalogue, set of clients and
\* number of crashes.
THEOREM CatalogueTypeCorrect == Spec => []TypeOK
<1>1. CatalogueInv => TypeOK
  BY DEF CatalogueInv
<1> QED
  BY <1>1, CatalogueInvariant, PTL

\* Until the first artifact is created no workflow is deleted from under its
\* executions, however deletes and executions interleave (artifact_handler.rs, db.rs).
THEOREM WorkflowsKept == Spec => []KeptWhileChecked
<1>1. CatalogueInv => KeptWhileChecked
  BY DEF CatalogueInv
<1> QED
  BY <1>1, CatalogueInvariant, PTL

\* What put_content saved alone is in the row and in the file until another call on
\* the ARN begins, through any number of crashes and starts.
THEOREM SavedTextsSurvive == Spec => []SavesSurvive
<1>1. CatalogueInv => SavesSurvive
  BY CatalogueAssumption DEF CatalogueInv, SavedInv, SavesSurvive, GetContent
<1> QED
  BY <1>1, CatalogueInvariant, PTL

\* A row there is stays, and so does a file that is whole.
Edits(a) == /\ rows[a] # None => rows'[a] = rows[a]
            /\ files[a] \notin {None, Torn} => files'[a] = files[a]

\* Before the server listens no route is served and no call goes on.
LEMMA NoRoutes ==
  ASSUME CatalogueInv, pc # "up", NEW c \in Clients
  PROVE  ~Route(c) /\ ~Continue(c)
<1>1. ~Free(c) /\ \A op, step : ~At(c, op, step)
  BY DEF CatalogueInv, StartInv, Free, At
<1> QED
  BY <1>1 DEF Route, Continue, WorkflowCalls, AgentCalls, SkillCalls, PromptCalls,
     ToolCalls, TemplateCalls, ResourceCalls, Create, ReadToUpdate, ReadToDelete, Begin,
     ReadToExecute, ReadToPut, CreateArtifact, Update, Delete, InsertExecution,
     TruncateFile, WriteFile, FailToWrite, PutContent

\* No step of a start-up changes a row or a whole file.
LEMMA StartStepKeepsEdits ==
  ASSUME CatalogueInv, [Next]_vars, pc # "up", NEW a \in Arn
  PROVE  Edits(a)
<1> USE DEF Edits
<1>1. /\ TypeOK /\ rows \in [Arn -> Row \cup {None}]
      /\ files \in [Arn -> Content \cup {None, Torn}]
      /\ \A c \in Clients : calls[c] = Idle
  BY DEF CatalogueInv, TypeOK, StartInv
<1>2. \A c \in Clients : ~Route(c) /\ ~Continue(c)
  BY NoRoutes
<1>3. CASE UNCHANGED <<rows, files>>
  BY <1>3
<1>4. CASE CreateDefaults
  <2>1. rows' = rows
    BY <1>4 DEF CreateDefaults
  <2>2. files' = files \/ (files[Defaults[next]] = None
                            /\ files' = [files EXCEPT ![Defaults[next]] = Torn])
    BY <1>4 DEF CreateDefaults, Kept
  <2> QED
    BY <1>1, <2>1, <2>2
<1>5. CASE WriteDefault
  <2>1. /\ rows' = rows /\ files[Defaults[next]] = Torn
        /\ files' = [files EXCEPT ![Defaults[next]] = Shipped[Defaults[next]]]
    BY <1>5 DEF WriteDefault, CatalogueInv, StartInv
  <2> QED
    BY <1>1, <2>1
<1>6. CASE Register
  <2>1. PICK b \in todo : RegisterYamlDir(b) \/ RegisterSkillsDir(b) \/ RegisterPromptsDir(b)
    BY <1>6 DEF Register
  <2>2. files' = files /\ b \in Arn /\ files[b] # None
    BY <1>6 DEF Register, CatalogueInv, StartInv
  <2> QED
    BY <1>1, <2>1, <2>2, RegisterKeeps
<1>7. CASE Start \/ CreateDatabase \/ Open \/ Listen \/ Crash \/ UNCHANGED vars
  BY <1>3, <1>7 DEF Start, CreateDatabase, Open, Listen, Crash, vars, store
<1> QED
  BY <1>2, <1>4, <1>5, <1>6, <1>7 DEF Next, StartServer

\* A start changes no row and no whole file (bootstrap.rs).
THEOREM StartsKeepEdits == Spec => StartKeepsEdits
<1>1. CatalogueInv /\ [Next]_vars =>
        [pc # "up" => \A a \in Arn : /\ rows[a] # None => rows'[a] = rows[a]
                                     /\ files[a] \notin {None, Torn} => files'[a] = files[a]]_vars
  BY StartStepKeepsEdits DEF Edits
<1> QED
  BY <1>1, CatalogueInvariant, PTL DEF Spec, StartKeepsEdits
-------------------------------------------------------------------------------
\* Complete openings.

\* Each file there was when the database was opened is still to be registered, or is,
\* or a warning was printed.
RegisteredInv ==
  pc = "register" =>
    \A a \in Global : a \notin todo /\ files[a] # None /\ Kind[a] # "template"
                       /\ RegisteredArn(a) # None
      => rows[RegisteredArn(a)] # None \/ RegisteredArn(a) \in warned

DefaultsThere == \A i \in DOMAIN Defaults : files[Defaults[i]] # None

\* A workspace that passes for initialized has all the defaults, unless a start-up was
\* killed among them.
DefaultsInv ==
  /\ pc = "init" => next = 1 /\ ~IsInitialized
  /\ pc \in {"defaults", "write"} =>
       \A i \in DOMAIN Defaults : i < next => files[Defaults[i]] # None
  /\ pc \in {"open", "register", "up"} /\ ~interrupted => DefaultsThere
  /\ pc = "down" /\ IsInitialized /\ ~interrupted => DefaultsThere

\* Before the first opening every row was written by the start-up.
FirstRowsInv ==
  crashes = 0 /\ pc # "up" =>
    \A a \in Arn : rows[a] # None =>
      rows[a].kind \in {"workflow", "agent", "tool", "skill"} \/ Kind[a] = "prompt"

OpenInv == RegisteredInv /\ DefaultsInv /\ FirstRowsInv
LEMMA InitOpen == Init => OpenInv
BY CatalogueAssumption DEF Init, OpenInv, RegisteredInv, DefaultsInv, FirstRowsInv, IsInitialized

\* No file goes.
FilesStay == \A a \in Arn : files[a] # None => files'[a] # None

LEMMA CallsKeepFiles ==
  ASSUME CatalogueInv, NEW c \in Clients, Route(c) \/ Continue(c)
  PROVE  pc = "up" /\ UNCHANGED <<pc, interrupted>> /\ FilesStay
<1>1. /\ files \in [Arn -> Content \cup {None, Torn}]
      /\ calls[c] # Idle /\ calls[c].op = "put" => calls[c].text \in Content
  BY DEF CatalogueInv, TypeOK, PutInv
<1>2. pc = "up"
  BY NoRoutes
<1>3. CASE UNCHANGED <<files, pc, interrupted>>
  BY <1>2, <1>3 DEF FilesStay
<1>4. CASE TruncateFile(c)
  <2>1. /\ UNCHANGED <<pc, interrupted>>
        /\ files' = [files EXCEPT ![calls[c].arn] = Torn]
    BY <1>4 DEF TruncateFile, startup, history
  <2> QED
    BY <1>1, <1>2, <2>1, CatalogueAssumption DEF FilesStay
<1>5. CASE WriteFile(c)
  <2>1. /\ UNCHANGED <<pc, interrupted>> /\ calls[c].text \in Content
        /\ files' = [files EXCEPT ![calls[c].arn] = calls[c].text]
    BY <1>1, <1>5 DEF WriteFile, At, startup, history
  <2> QED
    BY <1>1, <1>2, <2>1, CatalogueAssumption DEF FilesStay
<1>6. CASE Route(c)
  <2>1. ASSUME NEW kind, ResourceCalls(c, kind)
        PROVE  UNCHANGED <<files, pc, interrupted>>
    BY <2>1 DEF ResourceCalls, Create, ReadToUpdate, ReadToDelete, store, startup
  <2>2. ASSUME NEW a \in Arn, ReadToExecute(c, a) \/ \E text \in Texts[a] : ReadToPut(c, a, text)
        PROVE  UNCHANGED <<files, pc, interrupted>>
    BY <2>2 DEF ReadToExecute, ReadToPut, store, startup, history
  <2>3. CreateArtifact(c) => UNCHANGED <<files, pc, interrupted>>
    BY DEF CreateArtifact, store, startup
  <2> QED
    BY <1>3, <1>6, <2>1, <2>2, <2>3 DEF Route, WorkflowCalls, AgentCalls, SkillCalls,
       PromptCalls, ToolCalls, TemplateCalls
<1>7. CASE Update(c) \/ Delete(c) \/ InsertExecution(c) \/ FailToWrite(c) \/ PutContent(c)
  <2>1. UNCHANGED <<files, pc, interrupted>>
    BY <1>7 DEF Update, Delete, InsertExecution, FailToWrite, PutContent, store, startup, history
  <2> QED
    BY <1>3, <2>1
<1> QED
  BY <1>4, <1>5, <1>6, <1>7 DEF Continue

\* A step of one client's call, whatever it does to the rows.
LEMMA CallsKeepOpen ==
  ASSUME CatalogueInv, OpenInv, NEW c \in Clients, Route(c) \/ Continue(c)
  PROVE  OpenInv'
<1>1. pc = "up" /\ pc' = "up" /\ interrupted' = interrupted /\ FilesStay
  BY CallsKeepFiles
<1>2. DefaultsThere => DefaultsThere'
  <2>1. \A i \in DOMAIN Defaults : Defaults[i] \in Arn
    BY CatalogueAssumption
  <2> QED
    BY <1>1, <2>1 DEF DefaultsThere, FilesStay
<1> QED
  BY <1>1, <1>2 DEF OpenInv, RegisteredInv, DefaultsInv, FirstRowsInv

LEMMA StartKeepsOpen == CatalogueInv /\ OpenInv /\ Start => OpenInv'
<1> SUFFICES ASSUME CatalogueInv, OpenInv, Start PROVE OpenInv'
  OBVIOUS
<1>1. /\ pc = "down" /\ pc' = (IF IsInitialized THEN "open" ELSE "init") /\ next' = 1
      /\ UNCHANGED <<rows, files, db, interrupted, crashes>>
  BY DEF Start, store, history
<1> QED
  BY <1>1 DEF OpenInv, RegisteredInv, DefaultsInv, FirstRowsInv, IsInitialized, DefaultsThere

LEMMA CreateDatabaseKeepsOpen == OpenInv /\ CreateDatabase => OpenInv'
<1> SUFFICES ASSUME OpenInv, CreateDatabase PROVE OpenInv'
  OBVIOUS
<1>1. /\ pc = "init" /\ pc' = "defaults" /\ UNCHANGED <<rows, files, next, crashes>>
  BY DEF CreateDatabase
<1>2. \A i \in DOMAIN Defaults : ~(i < 1)
  BY CatalogueAssumption
<1> QED
  BY <1>1, <1>2 DEF OpenInv, RegisteredInv, DefaultsInv, FirstRowsInv

LEMMA CreateDefaultsKeepsOpen == CatalogueInv /\ OpenInv /\ CreateDefaults => OpenInv'
<1> SUFFICES ASSUME CatalogueInv, OpenInv, CreateDefaults PROVE OpenInv'
  OBVIOUS
<1>1. /\ pc = "defaults" /\ UNCHANGED <<rows, crashes>>
      /\ next \in Nat /\ next # 0 /\ Len(Defaults) \in Nat
      /\ DOMAIN Defaults = 1 .. Len(Defaults)
      /\ \A i \in DOMAIN Defaults : Defaults[i] \in Arn
      /\ \A i \in DOMAIN Defaults : i < next => files[Defaults[i]] # None
      /\ files \in [Arn -> Content \cup {None, Torn}]
  BY CatalogueAssumption DEF CreateDefaults, CatalogueInv, TypeOK, StartInv, OpenInv, DefaultsInv
<1>2. FirstRowsInv'
  BY <1>1 DEF OpenInv, FirstRowsInv
<1>3. CASE next > Len(Defaults)
  <2>1. pc' = "open" /\ files' = files /\ \A i \in DOMAIN Defaults : i < next
    BY <1>1, <1>3 DEF CreateDefaults
  <2>2. DefaultsThere'
    BY <1>1, <2>1 DEF DefaultsThere
  <2> QED
    BY <1>2, <2>1, <2>2 DEF OpenInv, RegisteredInv, DefaultsInv
<1>4. CASE next <= Len(Defaults) /\ files[Defaults[next]] # None
  <2>1. pc' = "defaults" /\ files' = files /\ next' = next + 1
    BY <1>1, <1>4 DEF CreateDefaults, Kept
  <2>2. ASSUME NEW i \in DOMAIN Defaults, i < next' PROVE files'[Defaults[i]] # None
    <3>1. i < next \/ i = next
      BY <1>1, <2>1, <2>2
    <3> QED
      BY <1>1, <1>4, <2>1, <3>1
  <2> QED
    BY <1>2, <2>1, <2>2 DEF OpenInv, RegisteredInv, DefaultsInv
<1>5. CASE next <= Len(Defaults) /\ files[Defaults[next]] = None
  <2>1. pc' = "write" /\ files' = [files EXCEPT ![Defaults[next]] = Torn] /\ next' = next
    BY <1>1, <1>5 DEF CreateDefaults, Kept
  <2>2. ASSUME NEW i \in DOMAIN Defaults, i < next' PROVE files'[Defaults[i]] # None
    BY <1>1, <2>1, <2>2, CatalogueAssumption
  <2> QED
    BY <1>2, <2>1, <2>2 DEF OpenInv, RegisteredInv, DefaultsInv
<1> QED
  BY <1>1, <1>3, <1>4, <1>5

LEMMA WriteDefaultKeepsOpen == CatalogueInv /\ OpenInv /\ WriteDefault => OpenInv'
<1> SUFFICES ASSUME CatalogueInv, OpenInv, WriteDefault PROVE OpenInv'
  OBVIOUS
<1>1. /\ pc = "write" /\ pc' = "defaults" /\ next' = next + 1 /\ UNCHANGED <<rows, crashes>>
      /\ files' = [files EXCEPT ![Defaults[next]] = Shipped[Defaults[next]]]
  BY DEF WriteDefault
<1>2. /\ next \in DOMAIN Defaults /\ next \in Nat /\ DOMAIN Defaults \subseteq Nat
      /\ \A i \in DOMAIN Defaults : Defaults[i] \in Arn
      /\ files \in [Arn -> Content \cup {None, Torn}]
      /\ \A i \in DOMAIN Defaults : i < next => files[Defaults[i]] # None
  BY <1>1, CatalogueAssumption DEF CatalogueInv, TypeOK, StartInv, OpenInv, DefaultsInv
<1>3. Shipped[Defaults[next]] # None
  BY <1>2, CatalogueAssumption
<1>4. ASSUME NEW i \in DOMAIN Defaults, i < next'
      PROVE  files'[Defaults[i]] # None
  <2>1. i < next \/ i = next
    BY <1>1, <1>2, <1>4
  <2> QED
    BY <1>1, <1>2, <1>3, <2>1
<1> QED
  BY <1>1, <1>4 DEF OpenInv, RegisteredInv, DefaultsInv, FirstRowsInv

LEMMA OpenKeepsOpen == CatalogueInv /\ OpenInv /\ Open => OpenInv'
<1> SUFFICES ASSUME CatalogueInv, OpenInv, Open PROVE OpenInv'
  OBVIOUS
<1>1. /\ pc = "open" /\ pc' = "register" /\ UNCHANGED <<rows, files, interrupted, crashes>>
      /\ todo' = {a \in Global : files[a] # None /\ Kind[a] # "template"}
  BY DEF Open, history
<1>2. RegisteredInv'
  BY <1>1 DEF RegisteredInv
<1>3. DefaultsInv' /\ FirstRowsInv'
  BY <1>1 DEF OpenInv, DefaultsInv, FirstRowsInv, DefaultsThere
<1> QED
  BY <1>2, <1>3 DEF OpenInv

\* A file that is registered has its row or is warned about, and a row that is added is
\* one of a shipped kind.
LEMMA RegisterWrites ==
  ASSUME TypeOK, NEW a \in Arn, files[a] # None,
         RegisterYamlDir(a) \/ RegisterSkillsDir(a) \/ RegisterPromptsDir(a)
  PROVE  /\ RegisteredArn(a) \in Arn \cup {None}
         /\ RegisteredArn(a) # None
              => rows'[RegisteredArn(a)] # None \/ RegisteredArn(a) \in warned'
         /\ warned \subseteq warned'
         /\ \A b \in Arn : rows'[b] # rows[b] =>
              rows'[b].kind \in {"workflow", "agent", "tool", "skill"} \/ Kind[b] = "prompt"
<1> DEFINE reg == RegisteredArn(a)
<1>1. /\ files[a] \in Content \cup {Torn} /\ rows \in [Arn -> Row \cup {None}]
      /\ None \notin Row /\ None \notin Arn
  BY CatalogueAssumption DEF TypeOK
<1>2. ExtractYamlField(files[a]) \in Arn \cup {None}
  BY <1>1 DEF ExtractYamlField, Content, Document
<1>3. ASSUME NEW row, row # None, reg \in Arn \cup {None}, RegisterRow(reg, row)
      PROVE  /\ reg # None => rows'[reg] # None \/ reg \in warned'
             /\ warned \subseteq warned'
             /\ \A b \in Arn : rows'[b] # rows[b] => b = reg /\ rows'[b] = row
  BY <1>1, <1>3 DEF RegisterRow
<1>4. CASE RegisterYamlDir(a)
  <2> DEFINE row == Node(Kind[a], IF reg = None THEN None ELSE AsJson(files[a]))
  <2>1. /\ Kind[a] \in {"workflow", "agent", "tool"} /\ reg = ExtractYamlField(files[a])
        /\ RegisterRow(reg, row)
    BY <1>4 DEF RegisterYamlDir, RegisteredArn
  <2>2. row # None /\ row.kind = Kind[a]
    <3>1. Kind[a] \in Kinds /\ (reg # None => AsJson(files[a]) \in Content)
      BY <1>1, <2>1, AsJsonType DEF Kinds, ExtractYamlField
    <3>2. (IF reg = None THEN None ELSE AsJson(files[a])) \in Content \cup {None}
      BY <3>1
    <3> QED
      BY <3>1, <3>2, NodeType DEF Node
  <2> HIDE DEF row, reg
  <2>3. reg \in Arn \cup {None}
    BY <1>2, <2>1
  <2>4. /\ reg # None => rows'[reg] # None \/ reg \in warned'
        /\ warned \subseteq warned'
        /\ \A b \in Arn : rows'[b] # rows[b] => b = reg /\ rows'[b] = row
    BY <1>3, <2>1, <2>2, <2>3
  <2> QED
    BY <2>1, <2>2, <2>3, <2>4 DEF reg
<1>5. CASE RegisterSkillsDir(a)
  <2>1. reg = a /\ RegisterRow(reg, Node("skill", None))
    BY <1>5 DEF RegisterSkillsDir, RegisteredArn
  <2>2. Node("skill", None) # None /\ Node("skill", None).kind = "skill"
    BY NodeType DEF Kinds, Node
  <2> QED
    BY <1>3, <2>1, <2>2
<1>6. CASE RegisterPromptsDir(a)
  <2>1. reg = a /\ Kind[a] = "prompt" /\ RegisterRow(reg, Node("prompt", None))
    BY <1>6 DEF RegisterPromptsDir, RegisteredArn
  <2>2. Node("prompt", None) # None
    BY NodeType DEF Kinds
  <2> QED
    BY <1>3, <2>1, <2>2
<1> QED
  BY <1>4, <1>5, <1>6

LEMMA RegisteredType ==
  ASSUME TypeOK, NEW a \in Arn, files[a] # None
  PROVE  RegisteredArn(a) \in Arn \cup {None}
<1>1. files[a] \in Content \cup {Torn}
  BY DEF TypeOK
<1> QED
  BY <1>1 DEF RegisteredArn, ExtractYamlField, Content, Document

LEMMA RegisterKeepsOpen == CatalogueInv /\ OpenInv /\ Register => OpenInv'
<1> SUFFICES ASSUME CatalogueInv, OpenInv, Register PROVE OpenInv'
  OBVIOUS
<1>1. PICK a \in todo : /\ todo' = todo \ {a}
                        /\ RegisterYamlDir(a) \/ RegisterSkillsDir(a) \/ RegisterPromptsDir(a)
  BY DEF Register
<1>2. pc = "register" /\ UNCHANGED <<files, interrupted, pc, next, crashes>>
  BY DEF Register, history
<1>3. a \in Arn /\ files[a] # None /\ TypeOK /\ Global \subseteq Arn /\ None \notin Arn
  BY CatalogueAssumption DEF CatalogueInv, StartInv
<1>4. \A b \in Arn : rows[b] # None => rows'[b] = rows[b]
  BY <1>1, <1>3, RegisterKeeps
<1>5. /\ RegisteredArn(a) # None
           => rows'[RegisteredArn(a)] # None \/ RegisteredArn(a) \in warned'
      /\ warned \subseteq warned'
      /\ \A b \in Arn : rows'[b] # rows[b] =>
           rows'[b].kind \in {"workflow", "agent", "tool", "skill"} \/ Kind[b] = "prompt"
  BY <1>1, <1>3, RegisterWrites
<1>6. RegisteredInv'
  <2>1. \A b : RegisteredArn(b)' = RegisteredArn(b)
    BY <1>2 DEF RegisteredArn, ExtractYamlField
  <2>2. ASSUME NEW b \in Global, b \notin todo', files[b] # None, Kind[b] # "template",
               RegisteredArn(b) # None
        PROVE  rows'[RegisteredArn(b)] # None \/ RegisteredArn(b) \in warned'
    <3>1. CASE b = a
      BY <1>5, <2>2, <3>1
    <3>2. CASE b # a
      <4>1. rows[RegisteredArn(b)] # None \/ RegisteredArn(b) \in warned
        BY <1>1, <1>2, <2>2, <3>2 DEF OpenInv, RegisteredInv
      <4>2. RegisteredArn(b) \in Arn
        BY <1>3, <2>2, RegisteredType
      <4> QED
        BY <1>4, <1>5, <4>1, <4>2
    <3> QED
      BY <3>1, <3>2
  <2> QED
    BY <1>2, <2>1, <2>2 DEF RegisteredInv
<1>7. DefaultsInv'
  BY <1>2 DEF OpenInv, DefaultsInv, DefaultsThere
<1>8. FirstRowsInv'
  BY <1>2, <1>5 DEF OpenInv, FirstRowsInv
<1> QED
  BY <1>6, <1>7, <1>8 DEF OpenInv

LEMMA ListenKeepsOpen == OpenInv /\ Listen => OpenInv'
<1> SUFFICES ASSUME OpenInv, Listen PROVE OpenInv'
  OBVIOUS
<1>1. pc = "register" /\ pc' = "up" /\ UNCHANGED <<files, interrupted>>
  BY DEF Listen, store, history
<1> QED
  BY <1>1 DEF OpenInv, RegisteredInv, DefaultsInv, FirstRowsInv, DefaultsThere

\* A start-up that is killed before the first default is there begins again.
LEMMA CrashKeepsOpen == CatalogueInv /\ OpenInv /\ Crash => OpenInv'
<1> SUFFICES ASSUME CatalogueInv, OpenInv, Crash PROVE OpenInv'
  OBVIOUS
<1>1. /\ pc # "down" /\ pc' = "down" /\ crashes' = crashes + 1 /\ UNCHANGED <<files, db>>
      /\ interrupted' = (interrupted \/ (pc \in {"defaults", "write"} /\ files[Defaults[1]] # None))
      /\ pc \in {"down", "init", "defaults", "write", "open", "register", "up"} /\ crashes \in Nat
  BY CatalogueAssumption DEF Crash, store, CatalogueInv, TypeOK
<1>2. IsInitialized' /\ ~interrupted' => DefaultsThere'
  <2> SUFFICES ASSUME IsInitialized, ~interrupted' PROVE DefaultsThere
    BY <1>1 DEF IsInitialized, DefaultsThere
  <2>1. ~interrupted /\ pc \notin {"defaults", "write"}
    BY <1>1 DEF IsInitialized
  <2>2. pc # "init"
    BY DEF OpenInv, DefaultsInv
  <2> QED
    BY <1>1, <2>1, <2>2 DEF OpenInv, DefaultsInv
<1>3. crashes' # 0
  BY <1>1
<1> QED
  BY <1>1, <1>2, <1>3 DEF OpenInv, RegisteredInv, DefaultsInv, FirstRowsInv

LEMMA OpenInvStep == CatalogueInv /\ OpenInv /\ [Next]_vars => OpenInv'
<1> SUFFICES ASSUME CatalogueInv, OpenInv, [Next]_vars PROVE OpenInv'
  OBVIOUS
<1>1. CASE Start \/ StartServer \/ Crash
  BY <1>1, StartKeepsOpen, CreateDatabaseKeepsOpen, CreateDefaultsKeepsOpen,
     WriteDefaultKeepsOpen, OpenKeepsOpen, RegisterKeepsOpen, ListenKeepsOpen, CrashKeepsOpen
     DEF StartServer
<1>2. ASSUME NEW c \in Clients, Route(c) \/ Continue(c)
      PROVE  OpenInv'
  BY <1>2, CallsKeepOpen
<1>3. CASE UNCHANGED vars
  <2>1. UNCHANGED <<rows, files, db, pc, next, todo, warned, interrupted, crashes>>
    BY <1>3 DEF vars, store, startup, history
  <2> QED
    BY <2>1 DEF OpenInv, RegisteredInv, RegisteredArn, ExtractYamlField, DefaultsInv,
       DefaultsThere, IsInitialized, FirstRowsInv
<1> QED
  BY <1>1, <1>2, <1>3 DEF Next

LEMMA OpenInvariant == Spec => [](CatalogueInv /\ OpenInv)
<1> QED
  BY InitInv, InitOpen, CatalogueStep, OpenInvStep, PTL DEF Spec

\* Only Listen opens the server.
LEMMA OpensByListening ==
  ASSUME CatalogueInv, [Next]_vars, pc # "up", pc' = "up"
  PROVE  Listen
<1>1. \A c \in Clients : ~Route(c) /\ ~Continue(c)
  BY NoRoutes
<1>2. ~Start /\ ~CreateDatabase /\ ~CreateDefaults /\ ~WriteDefault /\ ~Open /\ ~Crash
      /\ ~UNCHANGED vars
  BY DEF Start, CreateDatabase, CreateDefaults, WriteDefault, Open, Crash, vars, startup
<1>3. ~Register
  BY DEF Register
<1> QED
  BY <1>1, <1>2, <1>3 DEF Next, StartServer

LEMMA ListedRows ==
  ASSUME TypeOK, NEW a \in Arn, rows[a] # None
  PROVE  /\ a \in Listed
         /\ rows[a].kind \in {"workflow", "agent", "tool", "skill"}
              => a \in WorkflowList \cup AgentList \cup SkillList \cup ToolSearch
<1>1. rows[a] \in Row /\ a \in Registered
  BY DEF TypeOK, Registered
<1>2. rows[a].kind \in Kinds
  BY <1>1 DEF Row
<1>3. a \in ListByType(rows[a].kind)
  BY <1>1 DEF ListByType
<1> QED
  BY <1>2, <1>3 DEF Kinds, Listed, WorkflowResources, AgentResources, SkillResources,
     PromptResources, ToolResources, TemplateResources, WorkflowList, AgentList, SkillList,
     ToolSearch, ListNodes

\* When the server opens, every file that names itself is listed or was warned about
\* (bootstrap.rs, main.rs), and the defaults are there unless a start-up was killed
\* among them; the first time each that no warning names is in the list of its kind,
\* for any resources, files of users and failed registrations.
THEOREM OpeningsComplete == Spec => OpensComplete
<1> DEFINE A == pc # "up" /\ pc' = "up" =>
                 /\ \A a \in Global :
                      files[a] # None /\ Kind[a] # "template" /\ RegisteredArn(a) # None
                        => RegisteredArn(a) \in Listed \cup warned
                 /\ \A i \in DOMAIN Defaults :
                      LET d == Defaults[i]
                      IN /\ ~interrupted => files[d] # None
                         /\ crashes = 0 /\ files[d] = Shipped[d] /\ Kind[d] # "prompt"
                              => d \in WorkflowList \cup AgentList \cup SkillList \cup ToolSearch \cup warned
<1>1. ASSUME CatalogueInv, OpenInv, [Next]_vars, pc # "up", pc' = "up"
      PROVE  /\ \A a \in Global :
                  files[a] # None /\ Kind[a] # "template" /\ RegisteredArn(a) # None
                    => RegisteredArn(a) \in Listed \cup warned
             /\ \A i \in DOMAIN Defaults :
                  /\ ~interrupted => files[Defaults[i]] # None
                  /\ crashes = 0 /\ files[Defaults[i]] = Shipped[Defaults[i]]
                     /\ Kind[Defaults[i]] # "prompt"
                       => Defaults[i] \in WorkflowList \cup AgentList \cup SkillList \cup ToolSearch
                                              \cup warned
  <2>1. /\ pc = "register" /\ todo = {} /\ TypeOK /\ Global \subseteq Arn /\ None \notin Arn
        /\ RegisteredInv /\ DefaultsInv /\ FirstRowsInv
    BY <1>1, OpensByListening, CatalogueAssumption DEF Listen, CatalogueInv, OpenInv
  <2>2. ASSUME NEW a \in Global, files[a] # None, Kind[a] # "template", RegisteredArn(a) # None
        PROVE  /\ RegisteredArn(a) \in Arn
               /\ rows[RegisteredArn(a)] # None \/ RegisteredArn(a) \in warned
    BY <2>1, <2>2, RegisteredType DEF RegisteredInv
  <2>3. ASSUME NEW i \in DOMAIN Defaults, crashes = 0,
               files[Defaults[i]] = Shipped[Defaults[i]], Kind[Defaults[i]] # "prompt"
        PROVE  Defaults[i] \in WorkflowList \cup AgentList \cup SkillList \cup ToolSearch \cup warned
    <3> DEFINE d == Defaults[i]
    <3>1. /\ d \in Global /\ d \in Arn /\ files[d] \in Content /\ files[d] # None
          /\ files[d] # Torn /\ Kind[d] \in Kinds
      BY <2>1, <2>3, CatalogueAssumption
    <3>2. Kind[d] # "template" /\ RegisteredArn(d) = d
      BY <2>3, <3>1, ShippedAssumption DEF RegisteredArn, ExtractYamlField, Kinds
    <3>3. rows[d] # None \/ d \in warned
      BY <2>1, <2>2, <3>1, <3>2
    <3>4. rows[d] # None => rows[d].kind \in {"workflow", "agent", "tool", "skill"}
      BY <2>1, <2>3, <3>1 DEF FirstRowsInv
    <3> QED
      BY <2>1, <3>1, <3>3, <3>4, ListedRows
  <2>4. ~interrupted => DefaultsThere
    BY <2>1 DEF DefaultsInv
  <2> QED
    BY <2>1, <2>2, <2>3, <2>4, ListedRows DEF DefaultsThere
<1>2. CatalogueInv /\ OpenInv /\ [Next]_vars => [A]_vars
  BY <1>1 DEF A
<1> QED
  BY <1>2, OpenInvariant, PTL DEF Spec, OpensComplete
===============================================================================
