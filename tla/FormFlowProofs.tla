--------------------------- MODULE FormFlowProofs ---------------------------
(* What the host writes, the pages show, the server counts and the host's   *)
(* page draws agree, for every draft and every form made from it, any       *)
(* number of participants and any limits of the schemas.                    *)
EXTENDS FormFlow, GroupingProofs

(* The options a page shows are a sequence again, of the host's options, and *)
(* none of them is blank (the filter of toQuestionsPayload).                *)
LEMMA NonBlankType ==
  ASSUME NEW options \in Seq(Option)
  PROVE  NonBlank(options) \in Seq(Option)
<1> DEFINE kept == {k \in DOMAIN options : options[k] # Blank}
           none == [k \in kept |-> 0]
           self == [k \in kept |-> k]
           before(k) == {j \in kept : j < k}
<1>1. DOMAIN options = 1..Len(options) /\ Len(options) \in Nat
  OBVIOUS
<1>2. kept \subseteq 1..Len(options) /\ kept \subseteq Nat
  BY <1>1
<1>3. IsFiniteSet(kept)
  <2>1. IsFiniteSet(1..Len(options))
    BY <1>1, FS_Interval
  <2> QED
    BY <1>2, <2>1, FS_Subset
<1>4. Cardinality(kept) \in Nat
  BY <1>3, FS_CardinalityType
<1>5. ASSUME NEW k \in kept
      PROVE  Position(k, kept, none, self) = Cardinality(before(k))
  <2>1. {q \in kept : Earlier(q, k, none, self)} = before(k)
    BY <1>2 DEF Earlier
  <2> QED
    BY <2>1 DEF Position
<1>6. ASSUME NEW n \in 1..Cardinality(kept)
      PROVE  \E k \in kept : Cardinality(before(k)) = n - 1
  <2>1. n - 1 \in Nat /\ n - 1 < Cardinality(kept)
    BY <1>4
  <2>2. /\ \A x \in kept : none[x] \in Nat
        /\ \A x \in kept : self[x] \in Nat
        /\ \A x, y \in kept : self[x] = self[y] => x = y
    BY <1>2
  <2> HIDE DEF none, self, kept, before
  <2>3. \E k \in kept : Position(k, kept, none, self) = n - 1
    BY <1>3, <2>1, <2>2, PositionsTaken
  <2> QED
    BY <2>3, <1>5
<1>7. ASSUME NEW n \in 1..Cardinality(kept)
      PROVE  options[CHOOSE k \in kept : Cardinality(before(k)) = n - 1] \in Option
  <2> DEFINE k == CHOOSE k \in kept : Cardinality(before(k)) = n - 1
  <2>1. k \in kept
    <3> HIDE DEF kept, before
    <3> QED
      BY <1>6
  <2> QED
    BY <2>1, <1>1
<1>8. NonBlank(options)
        = [n \in 1..Cardinality(kept) |->
             options[CHOOSE k \in kept : Cardinality(before(k)) = n - 1]]
  BY DEF NonBlank
<1> DEFINE c == Cardinality(kept)
           pick(n) == options[CHOOSE k \in kept : Cardinality(before(k)) = n - 1]
<1>9. /\ c \in Nat
      /\ \A n \in 1..c : pick(n) \in Option
      /\ NonBlank(options) = [n \in 1..c |-> pick(n)]
  BY <1>4, <1>7, <1>8
<1> HIDE DEF c, pick
<1> QED
  BY <1>9

----------------------------------------------------------------------------
(* The draft: a question has the fields of its kind.                        *)
DraftQuestion ==
  [kind : Choice, prompt : Prompt, options : Seq(Option)]
  \cup [kind : {"text"}, prompt : Prompt]
  \cup [kind : {"scale"}, prompt : Prompt, min : Nat, max : Nat]

(* What has passed the schema: the fields a page needs are there.           *)
Asked(q) ==
  /\ q.kind \in Kind /\ q.prompt # Blank
  /\ q.kind \in Choice => q.options \in Seq(Option) /\ OptionsAdmitted(q.options)
  /\ q.kind = "text" => q.maxLength = EditorLength /\ q.maxLength <= FormLength
  /\ q.kind = "scale" => /\ q.min \in Nat /\ q.max \in Nat /\ q.step = 2
                         /\ Integer(q.min) /\ Integer(q.max)

LEMMA PayloadAsked ==
  ASSUME NEW q \in DraftQuestion, QuestionAdmitted(ToPayload(q))
  PROVE  Asked(ToPayload(q))
<1>1. CASE q \in [kind : Choice, prompt : Prompt, options : Seq(Option)]
  <2>1. q.kind \in Choice /\ q.options \in Seq(Option)
    BY <1>1
  <2>2. ToPayload(q) = [q EXCEPT !.options = NonBlank(@)]
    BY <2>1 DEF ToPayload, Choice
  <2> DEFINE p == ToPayload(q)
  <2>3. p.kind = q.kind /\ p.options = NonBlank(q.options)
    BY <1>1, <2>2
  <2>4. p.options \in Seq(Option)
    BY <2>1, <2>3, NonBlankType
  <2>5. p.kind \in Choice /\ p.kind # "text" /\ p.kind # "scale"
    BY <2>1, <2>3 DEF Choice
  <2> HIDE DEF p
  <2>6. QuestionAdmitted(p)
    BY DEF p
  <2> QED
    BY <2>4, <2>5, <2>6 DEF Asked, QuestionAdmitted, Kind, p
<1>2. CASE q \in [kind : {"text"}, prompt : Prompt]
  <2>1. ToPayload(q)
          = [kind |-> "text", prompt |-> q.prompt, maxLength |-> EditorLength]
    BY <1>2 DEF ToPayload, Choice
  <2> DEFINE p == ToPayload(q)
  <2>2. p.kind = "text" /\ p.maxLength = EditorLength
    BY <1>2, <2>1
  <2> HIDE DEF p
  <2>3. QuestionAdmitted(p)
    BY DEF p
  <2> QED
    BY <2>2, <2>3 DEF Asked, QuestionAdmitted, Kind, Choice, p
<1>3. CASE q \in [kind : {"scale"}, prompt : Prompt, min : Nat, max : Nat]
  <2>1. ToPayload(q) = [kind |-> "scale", prompt |-> q.prompt,
                        min |-> q.min, max |-> q.max, step |-> 2]
    BY <1>3 DEF ToPayload, Choice
  <2> DEFINE p == ToPayload(q)
  <2>2. p.kind = "scale" /\ p.min = q.min /\ p.max = q.max /\ p.step = 2
    BY <1>3, <2>1
  <2>3. p.min \in Nat /\ p.max \in Nat
    BY <1>3, <2>2
  <2> HIDE DEF p
  <2>4. QuestionAdmitted(p)
    BY DEF p
  <2> QED
    BY <2>2, <2>3, <2>4 DEF Asked, QuestionAdmitted, Kind, Choice, p
<1> QED
  BY <1>1, <1>2, <1>3 DEF DraftQuestion

----------------------------------------------------------------------------
(* The values of a scale: whole numbers, each a button of the page.         *)
LEMMA StepsWhole ==
  ASSUME NEW q, Asked(q), q.kind = "scale"
  PROVE  /\ \A k \in DOMAIN Steps(q) : Steps(q)[k] \in Nat /\ Integer(Steps(q)[k])
         /\ q.min <= q.max => 1 \in DOMAIN Steps(q)
<1>1. q.min \in Nat /\ q.max \in Nat /\ q.step = 2 /\ q.min % 2 = 0 /\ q.max % 2 = 0
  BY DEF Asked, Integer
<1>2. CASE q.min > q.max
  BY <1>1, <1>2 DEF Steps
<1>3. CASE ~ (q.min > q.max)
  <2>1. Steps(q) = [k \in 1..((q.max - q.min) \div 2 + 1) |-> q.min + (k - 1) * 2]
    BY <1>1, <1>3 DEF Steps
  <2>2. (q.max - q.min) \div 2 \in Nat
    BY <1>1, <1>3
  <2>3. ASSUME NEW m \in Nat, m % 2 = 0, NEW n \in Nat, NEW k \in 1..(n + 1)
        PROVE  m + (k - 1) * 2 \in Nat /\ (m + (k - 1) * 2) % 2 = 0
    BY <2>3
  <2>4. 1 \in 1..((q.max - q.min) \div 2 + 1)
    BY <2>2
  <2>5. \A k \in 1..((q.max - q.min) \div 2 + 1) :
           q.min + (k - 1) * 2 \in Nat /\ (q.min + (k - 1) * 2) % 2 = 0
    BY <1>1, <2>2, <2>3
  <2> HIDE <2>3
  <2>6. ASSUME NEW k \in DOMAIN Steps(q)
        PROVE  Steps(q)[k] \in Nat /\ Steps(q)[k] % 2 = 0
    BY <2>1, <2>5
  <2> QED
    BY <2>1, <2>4, <2>6 DEF Integer
<1> QED
  BY <1>2, <1>3

(* An answer the page lets its reader give is admitted by the schema of     *)
(* answers, and the server counts it at the buttons that were down.         *)
LEMMA AnswerCounted ==
  ASSUME NEW q, Asked(q), NEW v \in PageAnswers(q)
  PROVE  /\ ValueAdmitted(v)
         /\ Down(q, v) \subseteq DOMAIN Buttons(q)
         /\ q.kind # "text" => CountedAt(q, v) = Down(q, v)
<1>1. q.kind \in Kind
  BY DEF Asked
<1>2. CASE q.kind = "single"
  <2>1. PICK k \in DOMAIN q.options : v = [kind |-> "single", pick |-> k]
    BY <1>2 DEF PageAnswers
  <2>2. v.kind = "single" /\ v.pick = k
    BY <2>1
  <2>3. ValueAdmitted(v) /\ Down(q, v) = {k}
    BY <2>2 DEF ValueAdmitted, Down
  <2>4. CountedAt(q, v) = {k} /\ Buttons(q) = q.options
    BY <1>2, <2>1, <2>2 DEF CountedAt, Buttons, Choice
  <2> QED
    BY <2>1, <2>3, <2>4
<1>3. CASE q.kind = "multi"
  <2>1. PICK s \in SUBSET (DOMAIN q.options) : v = [kind |-> "multi", picks |-> s]
    BY <1>3 DEF PageAnswers, Picks
  <2>2. v.kind = "multi" /\ v.picks = s
    BY <2>1
  <2>3. /\ q.options \in Seq(Option) /\ Len(q.options) <= MaxOptions
        /\ MaxOptions \in Nat
    BY <1>3, FormAssumption DEF Asked, OptionsAdmitted, Choice
  <2>4. Cardinality(s) <= MaxOptions
    <3>1. DOMAIN q.options = 1..Len(q.options) /\ Len(q.options) \in Nat
      BY <2>3
    <3>2. /\ IsFiniteSet(1..Len(q.options))
          /\ Cardinality(1..Len(q.options)) = Len(q.options)
      BY <3>1, FS_Interval
    <3>3. /\ Cardinality(s) <= Cardinality(1..Len(q.options)) /\ IsFiniteSet(s)
          /\ Cardinality(s) \in Nat
      BY <3>1, <3>2, FS_Subset, FS_CardinalityType
    <3> QED
      BY <2>3, <3>1, <3>2, <3>3
  <2>5. ValueAdmitted(v)
    BY <2>2, <2>4 DEF ValueAdmitted
  <2>6. Down(q, v) = s
    BY <2>2 DEF Down
  <2>7. CountedAt(q, v) = s /\ Buttons(q) = q.options
    BY <1>3, <2>1, <2>2 DEF CountedAt, Buttons, Choice
  <2> QED
    BY <2>1, <2>5, <2>6, <2>7
<1>4. CASE q.kind = "text"
  <2>1. PICK n \in Typed(q) : v = [kind |-> "text", text |-> n]
    BY <1>4 DEF PageAnswers
  <2>2. v.kind = "text" /\ v.text = n
    BY <2>1
  <2>3. /\ n \in Nat /\ n <= q.maxLength /\ q.maxLength \in Nat /\ q.maxLength <= FormLength
        /\ FormLength \in Nat /\ AnswerLength \in Nat /\ FormLength <= AnswerLength
    BY <1>4, FormAssumption DEF Typed, Asked
  <2>4. ValueAdmitted(v)
    BY <2>2, <2>3 DEF ValueAdmitted
  <2>5. Down(q, v) = {}
    BY <2>2 DEF Down
  <2> QED
    BY <1>4, <2>4, <2>5
<1>5. CASE q.kind = "scale"
  <2>1. PICK k \in DOMAIN Steps(q) : v = [kind |-> "scale", value |-> Steps(q)[k]]
    <3>1. v \in {[kind |-> "scale", value |-> x] : x \in ToSet(PageValues(q))}
      BY <1>5 DEF PageAnswers
    <3> QED
      BY <3>1 DEF ToSet, PageValues
  <2>2. v.kind = "scale" /\ v.value = Steps(q)[k]
    BY <2>1
  <2>3. ValueAdmitted(v)
    BY <1>5, <2>1, <2>2, StepsWhole DEF ValueAdmitted
  <2>4. Buttons(q) = Steps(q)
    BY <1>5 DEF Buttons, Choice, PageValues
  <2>5. Down(q, v) = {j \in DOMAIN Steps(q) : Steps(q)[j] = v.value}
    BY <2>2, <2>4 DEF Down
  <2>6. CountedAt(q, v) = {j \in DOMAIN Steps(q) : Steps(q)[j] = v.value}
    BY <1>5, <2>2 DEF CountedAt, RollupValues
  <2> QED
    BY <2>3, <2>4, <2>5, <2>6
<1> QED
  BY <1>1, <1>2, <1>3, <1>4, <1>5 DEF Kind, Choice

----------------------------------------------------------------------------
(* The draft stays a draft under every edit.                                *)
LEMMA ConvertType ==
  ASSUME NEW q \in DraftQuestion, NEW kind \in Kind
  PROVE  Convert(q, kind) \in DraftQuestion
<1>1. q.prompt \in Prompt /\ (q.kind \in Choice => q.options \in Seq(Option))
  BY DEF DraftQuestion, Choice
<1>2. <<Blank, Blank>> \in Seq(Option)
  BY FormAssumption
<1>3. CASE kind \in Choice
  <2> DEFINE o == IF q.kind \in Choice THEN q.options ELSE <<Blank, Blank>>
  <2>1. o \in Seq(Option)
    BY <1>1, <1>2
  <2>2. Convert(q, kind) = [kind |-> kind, prompt |-> q.prompt, options |-> o]
    BY <1>3 DEF Convert
  <2> HIDE DEF o
  <2> QED
    BY <1>1, <1>3, <2>1, <2>2 DEF DraftQuestion
<1>4. CASE kind = "text"
  BY <1>1, <1>4 DEF Convert, DraftQuestion, Choice
<1>5. CASE kind = "scale"
  BY <1>1, <1>5 DEF Convert, DraftQuestion, Choice
<1> QED
  BY <1>3, <1>4, <1>5 DEF Kind

LEMMA OptionEditsType ==
  ASSUME NEW options \in Seq(Option)
  PROVE  OptionEdits(options) \subseteq Seq(Option)
<1>1. \A k \in DOMAIN options : \A t \in Option : [options EXCEPT ![k] = t] \in Seq(Option)
  OBVIOUS
<1>2. ASSUME NEW k \in DOMAIN options PROVE RemoveAt(options, k) \in Seq(Option)
  BY DEF RemoveAt
<1>3. Append(options, Blank) \in Seq(Option)
  BY FormAssumption
<1>4. ASSUME NEW o \in OptionEdits(options) PROVE o \in Seq(Option)
  <2> DEFINE E == {[options EXCEPT ![k] = t] : k \in DOMAIN options, t \in Option}
             R == {RemoveAt(options, k) : k \in DOMAIN options}
  <2>1. OptionEdits(options) = E \cup R \cup {Append(options, Blank)}
    BY DEF OptionEdits
  <2>2. \A x \in E : x \in Seq(Option)
    BY <1>1
  <2>3. \A x \in R : x \in Seq(Option)
    BY <1>2
  <2> HIDE DEF E, R
  <2> QED
    BY <2>1, <2>2, <2>3, <1>3
<1> QED
  BY <1>4

LEMMA EditsType ==
  ASSUME NEW q \in DraftQuestion
  PROVE  Edits(q) \subseteq DraftQuestion
<1>1. \A kind \in Kind : Convert(q, kind) \in DraftQuestion
  BY ConvertType
<1>2. \A t \in Prompt : [q EXCEPT !.prompt = t] \in DraftQuestion
  BY DEF DraftQuestion
<1>3. ASSUME q.kind \in Choice, NEW o \in OptionEdits(q.options)
      PROVE  [q EXCEPT !.options = o] \in DraftQuestion
  <2>1. q \in [kind : Choice, prompt : Prompt, options : Seq(Option)]
    BY <1>3 DEF DraftQuestion, Choice
  <2>2. q.options \in Seq(Option)
    BY <2>1
  <2>3. o \in Seq(Option)
    BY <1>3, <2>2, OptionEditsType
  <2>4. [q EXCEPT !.options = o] \in [kind : Choice, prompt : Prompt, options : Seq(Option)]
    BY <2>1, <2>3
  <2> QED
    BY <2>4 DEF DraftQuestion
<1>4. ASSUME q.kind = "scale", NEW n \in Half
      PROVE  /\ [q EXCEPT !.min = n] \in DraftQuestion
             /\ [q EXCEPT !.max = n] \in DraftQuestion
  <2>1. q \in [kind : {"scale"}, prompt : Prompt, min : Nat, max : Nat]
    BY <1>4 DEF DraftQuestion, Choice
  <2>2. n \in Nat
    BY FormAssumption
  <2> QED
    BY <2>1, <2>2 DEF DraftQuestion
<1> QED
  BY <1>1, <1>2, <1>3, <1>4 DEF Edits

----------------------------------------------------------------------------
(* The invariant.  A form has passed the schema; every answer was one of    *)
(* those its page offered, each participant has one for each question its   *)
(* page says is answered, and the buttons pressed are those that the stored *)
(* answers name.                                                            *)
Stored(r) ==
  /\ r = [who |-> r.who, question |-> r.question, value |-> r.value]
  /\ r.who \in Person /\ r.question \in DOMAIN form
  /\ r.value \in PageAnswers(form[r.question])

PressedFor(r) == {<<r.who, r.question, k>> : k \in Down(form[r.question], r.value)}

FlowInv ==
  /\ draft \in Seq(DraftQuestion)
  /\ \A i \in DOMAIN form : Asked(form[i])
  /\ answered \in [Person -> SUBSET (DOMAIN form)]
  /\ refused = {}
  /\ IsFiniteSet(responses)
  /\ \A r \in responses : Stored(r)
  /\ \A r, s \in responses : r.who = s.who /\ r.question = s.question => r = s
  /\ \A p \in Person : answered[p] = {r.question : r \in {s \in responses : s.who = p}}
  /\ pressed = UNION {PressedFor(r) : r \in responses}

LEMMA InitFlow ==
  ASSUME Init
  PROVE  FlowInv
<1>1. FirstDraft \in DraftQuestion
  <2>1. <<Blank, Blank>> \in Seq(Option)
    BY FormAssumption
  <2> QED
    BY <2>1, FormAssumption DEF FirstDraft, DraftQuestion, Choice
<1>2. draft \in Seq(DraftQuestion)
  BY <1>1 DEF Init
<1>3. IsFiniteSet(responses)
  BY FS_EmptySet DEF Init
<1> QED
  BY <1>2, <1>3 DEF Init, FlowInv

LEMMA EditFlow ==
  ASSUME FlowInv, NEW d \in Seq(DraftQuestion), EditDraft(d)
  PROVE  FlowInv'
BY DEF FlowInv, EditDraft, Stored, PressedFor

LEMMA IssueFlow ==
  ASSUME FlowInv, Issue
  PROVE  FlowInv'
<1> DEFINE payload == [i \in DOMAIN draft |-> ToPayload(draft[i])]
<1>1. /\ form = <<>> /\ form' = payload /\ FormAdmitted(payload)
      /\ UNCHANGED <<draft, answered, responses, refused, pressed>>
  BY DEF Issue
<1>2. DOMAIN form = {}
  BY <1>1
<1>3. responses = {} /\ pressed = {}
  <2>1. responses = {}
    BY <1>2 DEF FlowInv, Stored
  <2> QED
    BY <2>1 DEF FlowInv
<1>4. \A p \in Person : answered[p] = {}
  BY <1>2 DEF FlowInv
<1>5. ASSUME NEW i \in DOMAIN form' PROVE Asked(form'[i])
  <2>1. i \in DOMAIN draft /\ draft[i] \in DraftQuestion
    BY <1>1 DEF FlowInv
  <2>2. form'[i] = ToPayload(draft[i])
    BY <1>1, <2>1
  <2>3. QuestionAdmitted(payload[i])
    BY <1>1, <2>1 DEF FormAdmitted
  <2>4. QuestionAdmitted(ToPayload(draft[i]))
    BY <2>1, <2>3
  <2> QED
    BY <2>1, <2>2, <2>4, PayloadAsked
<1>6. answered' \in [Person -> SUBSET (DOMAIN form')]
  BY <1>1, <1>4 DEF FlowInv
<1>7. (\A i \in DOMAIN form : Asked(form[i]))'
  BY <1>5 DEF Asked, OptionsAdmitted, Integer
<1>8. /\ draft' \in Seq(DraftQuestion) /\ refused' = {}
      /\ responses' = {} /\ pressed' = {}
      /\ \A p \in Person : answered'[p] = {}
  BY <1>1, <1>3, <1>4 DEF FlowInv
<1>9. IsFiniteSet(responses')
  BY <1>8, FS_EmptySet
<1> HIDE DEF payload
<1> QED
  BY <1>6, <1>7, <1>8, <1>9 DEF FlowInv

(* Whatever is stored, the host's schema admits the rollups made of it.     *)
LEMMA RollupPasses ==
  ASSUME NEW i \in DOMAIN form, Asked(form[i]), NEW R, IsFiniteSet(R)
  PROVE  RollupAdmitted(form[i], RollupFor(i, R))
<1> DEFINE q == form[i]
           r == RollupFor(i, R)
           A == AnswersTo(i, R)
<1>1. q.prompt # Blank /\ q.kind \in Kind
  BY DEF Asked
<1>2. CASE q.kind = "text"
  <2>1. r.samples = IF Cardinality(A) <= MaxSamples THEN Cardinality(A) ELSE MaxSamples
    BY <1>2 DEF RollupFor
  <2>2. Cardinality(A) \in Nat /\ MaxSamples \in Nat
    BY FS_Subset, FS_CardinalityType, FormAssumption DEF AnswersTo
  <2> HIDE DEF r, A
  <2>3. r.samples <= MaxSamples
    BY <2>1, <2>2
  <2> QED
    BY <1>1, <1>2, <2>3 DEF RollupAdmitted, Choice, r
<1>3. CASE q.kind \in Choice
  <2>1. r.labels = q.options
    BY <1>3 DEF RollupFor, Choice
  <2>2. OptionsAdmitted(q.options)
    BY <1>3 DEF Asked
  <2> HIDE DEF r
  <2> QED
    BY <1>1, <1>3, <2>1, <2>2 DEF RollupAdmitted, Choice, r
<1>4. CASE q.kind = "scale"
  BY <1>1, <1>4 DEF RollupAdmitted, Choice
<1> QED
  BY <1>1, <1>2, <1>3, <1>4 DEF Kind

LEMMA AnswerFlow ==
  ASSUME FlowInv, NEW p \in Person, NEW i \in DOMAIN form, Answer(p, i)
  PROVE  FlowInv'
<1>1. PICK v \in PageAnswers(form[i]) :
        LET R == responses \cup {[who |-> p, question |-> i, value |-> v]} IN
        /\ answered' = [answered EXCEPT ![p] = @ \cup {i}]
        /\ pressed' = pressed \cup {<<p, i, k>> : k \in Down(form[i], v)}
        /\ IF ValueAdmitted(v)
             THEN /\ responses' = R
                  /\ refused' = IF \A j \in DOMAIN form : RollupAdmitted(form[j], RollupFor(j, R))
                                  THEN refused ELSE refused \cup {"response.rollup"}
             ELSE refused' = refused \cup {"response.submit"} /\ UNCHANGED responses
  BY DEF Answer
<1>2. UNCHANGED <<draft, form>> /\ i \notin answered[p]
  BY DEF Answer
<1> DEFINE new == [who |-> p, question |-> i, value |-> v]
           R == responses \cup {new}
<1>3. \A j \in DOMAIN form : Asked(form[j])
  BY DEF FlowInv
<1>4. ValueAdmitted(v)
  BY <1>3, AnswerCounted
<1>5. IsFiniteSet(R)
  BY FS_AddElement DEF FlowInv
<1>6. \A j \in DOMAIN form : RollupAdmitted(form[j], RollupFor(j, R))
  <2> HIDE DEF R
  <2> QED
    BY <1>3, <1>5, RollupPasses
<1>7. responses' = R /\ refused' = {}
  BY <1>1, <1>4, <1>6 DEF FlowInv
<1>8. new.who = p /\ new.question = i /\ new.value = v
  OBVIOUS
<1>9. new \notin responses /\ \A r \in responses : ~ (r.who = p /\ r.question = i)
  <2>1. \A r \in responses : r.who = p => r.question \in answered[p]
    BY DEF FlowInv
  <2> QED
    BY <2>1, <1>2, <1>8
<1>10. \A r \in responses' : Stored(r)'
  <2>1. \A r \in responses : Stored(r)'
    BY <1>2 DEF FlowInv, Stored, PageAnswers
  <2>2. Stored(new)'
    BY <1>2, <1>8 DEF Stored
  <2> QED
    BY <1>7, <2>1, <2>2
<1>11. \A r, s \in responses' : r.who = s.who /\ r.question = s.question => r = s
  <2> HIDE DEF new
  <2> QED
    BY <1>7, <1>8, <1>9 DEF FlowInv
<1>12. ASSUME NEW x \in Person
       PROVE  answered'[x] = {r.question : r \in {s \in responses' : s.who = x}}
  <2>1. answered[x] = {r.question : r \in {s \in responses : s.who = x}}
    BY DEF FlowInv
  <2>2. answered'[x] = IF x = p THEN answered[x] \cup {i} ELSE answered[x]
    BY <1>1 DEF FlowInv
  <2> HIDE DEF new
  <2>3. CASE x = p
    <3>1. {s \in responses' : s.who = x} = {s \in responses : s.who = x} \cup {new}
      BY <1>7, <1>8, <2>3
    <3> QED
      BY <2>1, <2>2, <2>3, <3>1, <1>8
  <2>4. CASE x # p
    <3>1. {s \in responses' : s.who = x} = {s \in responses : s.who = x}
      BY <1>7, <1>8, <2>4
    <3> QED
      BY <2>1, <2>2, <2>4, <3>1
  <2> QED
    BY <2>3, <2>4
<1>13. pressed' = UNION {PressedFor(r)' : r \in responses'}
  <2>1. \A r : PressedFor(r)' = PressedFor(r)
    BY <1>2 DEF PressedFor
  <2>2. PressedFor(new) = {<<p, i, k>> : k \in Down(form[i], v)}
    BY <1>8 DEF PressedFor
  <2>3. pressed' = pressed \cup PressedFor(new)
    BY <1>1, <2>2
  <2>4. pressed = UNION {PressedFor(r) : r \in responses}
    BY DEF FlowInv
  <2> HIDE DEF new
  <2> QED
    BY <1>7, <2>1, <2>3, <2>4
<1>14. answered' \in [Person -> SUBSET (DOMAIN form')]
  BY <1>1, <1>2 DEF FlowInv
<1>15. draft' \in Seq(DraftQuestion) /\ IsFiniteSet(responses')
  BY <1>2, <1>5, <1>7 DEF FlowInv
<1>16. (\A j \in DOMAIN form : Asked(form[j]))'
  BY <1>2, <1>3 DEF Asked, OptionsAdmitted, Integer
<1> HIDE DEF new, R
<1> QED
  BY <1>7, <1>10, <1>11, <1>12, <1>13, <1>14, <1>15, <1>16 DEF FlowInv

LEMMA FlowInvCorrect == Spec => []FlowInv
<1>1. Init => FlowInv
  BY InitFlow
<1>2. FlowInv /\ [Next]_vars => FlowInv'
  <2> SUFFICES ASSUME FlowInv, [Next]_vars PROVE FlowInv'
    OBVIOUS
  <2>1. draft \in Seq(DraftQuestion)
    BY DEF FlowInv
  <2>2. CASE AddQuestion
    <3>1. FirstDraft \in DraftQuestion
      <4>1. <<Blank, Blank>> \in Seq(Option)
        BY FormAssumption
      <4> QED
        BY <4>1, FormAssumption DEF FirstDraft, DraftQuestion, Choice
    <3>2. Append(draft, FirstDraft) \in Seq(DraftQuestion)
      BY <2>1, <3>1
    <3> QED
      BY <2>2, <3>2, EditFlow DEF AddQuestion
  <2>3. CASE \E i \in DOMAIN draft : UpdateAt(i)
    <3> PICK i \in DOMAIN draft : UpdateAt(i)
      BY <2>3
    <3>1. PICK q \in Edits(draft[i]) : EditDraft([draft EXCEPT ![i] = q])
      BY DEF UpdateAt
    <3>2. q \in DraftQuestion
      <4>1. draft[i] \in DraftQuestion
        BY <2>1
      <4> QED
        BY <4>1, EditsType
    <3>3. [draft EXCEPT ![i] = q] \in Seq(DraftQuestion)
      BY <2>1, <3>2
    <3> QED
      BY <3>1, <3>3, EditFlow
  <2>4. CASE \E i \in DOMAIN draft : RemoveQuestion(i)
    <3>1. PICK i \in DOMAIN draft : EditDraft(RemoveAt(draft, i))
      BY <2>4 DEF RemoveQuestion
    <3>2. RemoveAt(draft, i) \in Seq(DraftQuestion)
      BY <2>1 DEF RemoveAt
    <3> QED
      BY <3>1, <3>2, EditFlow
  <2>5. CASE Issue
    BY <2>5, IssueFlow
  <2>6. CASE \E p \in Person, i \in DOMAIN form : Answer(p, i)
    BY <2>6, AnswerFlow
  <2>7. CASE UNCHANGED vars
    BY <2>7 DEF vars, FlowInv, Asked, OptionsAdmitted, Integer, Stored, PressedFor
  <2> QED
    BY <2>2, <2>3, <2>4, <2>5, <2>6, <2>7 DEF Next
<1> QED
  BY <1>1, <1>2, PTL DEF Spec

(* Type correctness of the draft, the form, the pages and the store.        *)
THEOREM TypeCorrect == Spec => []TypeOK
<1>1. FlowInv => TypeOK
  <2> SUFFICES ASSUME FlowInv PROVE TypeOK
    OBVIOUS
  <2>1. ASSUME NEW i \in DOMAIN draft
        PROVE  /\ draft[i].kind \in Kind /\ draft[i].prompt \in Prompt
               /\ draft[i].kind \in Choice => draft[i].options \in Seq(Option)
               /\ draft[i].kind = "scale" => {draft[i].min, draft[i].max} \subseteq Nat
    <3>1. draft[i] \in DraftQuestion
      BY DEF FlowInv
    <3> QED
      BY <3>1 DEF DraftQuestion, Kind, Choice
  <2>2. \A r \in responses : r.who \in Person /\ r.question \in DOMAIN form
    BY DEF FlowInv, Stored
  <2>3. ASSUME NEW b \in pressed PROVE b[1] \in Person /\ b[2] \in DOMAIN form
    <3>1. PICK r \in responses : b \in PressedFor(r)
      BY DEF FlowInv
    <3> QED
      BY <3>1, <2>2 DEF PressedFor
  <2>4. answered \in [Person -> SUBSET (DOMAIN form)] /\ refused = {}
    BY DEF FlowInv
  <2> QED
    BY <2>1, <2>2, <2>3, <2>4 DEF TypeOK
<1> QED
  BY <1>1, FlowInvCorrect, PTL

(* What one end sends the other end's schema admits: an answer a page lets  *)
(* its reader give is stored, a rollup the server makes is shown.           *)
THEOREM FramesCorrect == Spec => []FramesAdmitted
<1>1. FlowInv => FramesAdmitted
  BY DEF FlowInv, FramesAdmitted
<1> QED
  BY <1>1, FlowInvCorrect, PTL

(* Every question of an accepted form can be answered, but for a scale that *)
(* has no values.                                                           *)
THEOREM FinishableCorrect == Spec => []Finishable
<1>1. FlowInv => Finishable
  <2> SUFFICES ASSUME FlowInv, NEW i \in DOMAIN form,
                      ~ (form[i].kind = "scale" /\ form[i].min > form[i].max)
               PROVE  PageAnswers(form[i]) # {}
    BY DEF Finishable
  <2> DEFINE q == form[i]
  <2>1. Asked(q)
    BY DEF FlowInv
  <2> HIDE DEF q
  <2>2. q.kind \in Choice => 1 \in DOMAIN q.options
    <3> SUFFICES ASSUME q.kind \in Choice PROVE 1 \in DOMAIN q.options
      OBVIOUS
    <3>1. q.options \in Seq(Option) /\ MinOptions <= Len(q.options)
      BY <2>1 DEF Asked, OptionsAdmitted
    <3>2. MinOptions \in Nat /\ MinOptions >= 1
      BY FormAssumption
    <3> QED
      BY <3>1, <3>2
  <2>3. CASE q.kind = "single"
    <3>1. [kind |-> "single", pick |-> 1] \in PageAnswers(q)
      BY <2>2, <2>3 DEF PageAnswers, Choice
    <3> QED
      BY <3>1 DEF q
  <2>4. CASE q.kind = "multi"
    <3>1. {1} \in SUBSET (DOMAIN q.options) /\ {1} # {}
      BY <2>2, <2>4 DEF Choice
    <3>2. {1} \in Picks(q)
      BY <3>1 DEF Picks
    <3>3. [kind |-> "multi", picks |-> {1}] \in PageAnswers(q)
      BY <2>4, <3>2 DEF PageAnswers
    <3> QED
      BY <3>3 DEF q
  <2>5. CASE q.kind = "text"
    <3>1. PICK n \in Length : n > 0 /\ n <= EditorLength
      BY FormAssumption
    <3>2. n \in Typed(q)
      BY <2>1, <2>5, <3>1 DEF Typed, Asked
    <3>3. [kind |-> "text", text |-> n] \in PageAnswers(q)
      BY <2>5, <3>2 DEF PageAnswers
    <3> QED
      BY <3>3 DEF q
  <2>6. CASE q.kind = "scale"
    <3>1. q.min \in Nat /\ q.max \in Nat
      BY <2>1, <2>6 DEF Asked
    <3>2. q.min <= q.max
      BY <2>6, <3>1 DEF q
    <3>3. Steps(q)[1] \in ToSet(PageValues(q))
      BY <2>1, <2>6, <3>2, StepsWhole DEF ToSet, PageValues
    <3>4. [kind |-> "scale", value |-> Steps(q)[1]] \in PageAnswers(q)
      BY <2>6, <3>3 DEF PageAnswers
    <3> QED
      BY <3>4 DEF q
  <2> QED
    BY <2>1, <2>3, <2>4, <2>5, <2>6 DEF Asked, Kind, Choice
<1> QED
  BY <1>1, FlowInvCorrect, PTL

(* The total of a question is the number of participants whose page says it *)
(* is answered, and no bar is longer than the total.                        *)
THEOREM TotalsCorrect == Spec => []TotalsMatch
<1>1. FlowInv => TotalsMatch
  <2> SUFFICES ASSUME FlowInv, NEW i \in DOMAIN form
               PROVE  LET r == RollupFor(i, responses) IN
                      /\ r.total = Cardinality({p \in Person : i \in answered[p]})
                      /\ form[i].kind # "text" => \A k \in DOMAIN r.counts : r.counts[k] <= r.total
    BY DEF TotalsMatch
  <2> DEFINE A == AnswersTo(i, responses)
             P == {p \in Person : i \in answered[p]}
             f == [r \in A |-> r.who]
             r == RollupFor(i, responses)
  <2>1. IsFiniteSet(A)
    BY FS_Subset DEF AnswersTo, FlowInv
  <2>2. ASSUME NEW s \in A PROVE f[s] \in P
    BY DEF AnswersTo, FlowInv, Stored
  <2>3. \A s, t \in A : f[s] = f[t] => s = t
    BY DEF AnswersTo, FlowInv
  <2>4. ASSUME NEW p \in P PROVE \E s \in A : f[s] = p
    BY DEF AnswersTo, FlowInv
  <2>5. f \in Bijection(A, P)
    BY <2>2, <2>3, <2>4 DEF Bijection, Injection, Surjection, IsInjective
  <2>6. Cardinality(A) = Cardinality(P)
    BY <2>1, <2>5, FS_Bijection DEF ExistsBijection
  <2>7. r.total = Cardinality(A)
    BY DEF RollupFor
  <2>8. ASSUME form[i].kind # "text", NEW k \in DOMAIN r.counts PROVE r.counts[k] <= r.total
    <3>1. r.counts[k] = Cardinality({s \in A : k \in CountedAt(form[i], s.value)})
      BY <2>8 DEF RollupFor
    <3> QED
      BY <2>1, <2>7, <3>1, FS_Subset
  <2> QED
    BY <2>6, <2>7, <2>8
<1> QED
  BY <1>1, FlowInvCorrect, PTL

(* The bars the host sees are the buttons of the page, and each counts the  *)
(* participants who pressed its button.                                     *)
THEOREM BarsCorrect == Spec => []BarsMatch
<1>1. FlowInv => BarsMatch
  <2> SUFFICES ASSUME FlowInv, NEW i \in DOMAIN form, form[i].kind # "text"
               PROVE  LET r == RollupFor(i, responses) IN
                      /\ r.labels = Buttons(form[i])
                      /\ \A k \in DOMAIN r.labels :
                           r.counts[k] = Cardinality({b \in pressed : b[2] = i /\ b[3] = k})
    BY DEF BarsMatch
  <2> DEFINE r == RollupFor(i, responses)
             A == AnswersTo(i, responses)
  <2>1. Asked(form[i])
    BY DEF FlowInv
  <2>2. r.labels = Buttons(form[i])
    BY <2>1 DEF RollupFor, Buttons, Asked, Kind, Choice, RollupValues, PageValues
  <2>3. ASSUME NEW k \in DOMAIN r.labels
        PROVE  r.counts[k] = Cardinality({b \in pressed : b[2] = i /\ b[3] = k})
    <3> DEFINE C == {s \in A : k \in CountedAt(form[i], s.value)}
               B == {b \in pressed : b[2] = i /\ b[3] = k}
               f == [s \in C |-> <<s.who, i, k>>]
    <3>1. r.counts[k] = Cardinality(C)
      BY DEF RollupFor
    <3>2. IsFiniteSet(C)
      BY FS_Subset DEF AnswersTo, FlowInv
    <3>3. ASSUME NEW s \in A
          PROVE  CountedAt(form[i], s.value) = Down(form[i], s.value)
      <4>1. s.value \in PageAnswers(form[i])
        BY DEF AnswersTo, FlowInv, Stored
      <4> QED
        BY <2>1, <4>1, AnswerCounted
    <3>4. ASSUME NEW s \in C PROVE f[s] \in B
      <4>1. s \in responses /\ s.question = i /\ k \in Down(form[i], s.value)
        BY <3>3 DEF AnswersTo
      <4>2. f[s] \in PressedFor(s)
        BY <4>1 DEF PressedFor
      <4>3. f[s] \in pressed
        BY <4>1, <4>2 DEF FlowInv
      <4> QED
        BY <4>3
    <3>5. \A s, t \in C : f[s] = f[t] => s = t
      BY DEF AnswersTo, FlowInv
    <3>6. ASSUME NEW b \in B PROVE \E s \in C : f[s] = b
      <4>1. PICK s \in responses : b \in PressedFor(s)
        BY DEF FlowInv
      <4>2. PICK n \in Down(form[s.question], s.value) : b = <<s.who, s.question, n>>
        BY <4>1 DEF PressedFor
      <4>3. s.question = i /\ n = k
        BY <4>2
      <4>4. s \in C
        BY <3>3, <4>2, <4>3 DEF AnswersTo
      <4> QED
        BY <4>2, <4>3, <4>4
    <3>7. f \in Bijection(C, B)
      BY <3>4, <3>5, <3>6 DEF Bijection, Injection, Surjection, IsInjective
    <3> QED
      BY <3>1, <3>2, <3>7, FS_Bijection DEF ExistsBijection
  <2> QED
    BY <2>2, <2>3
<1> QED
  BY <1>1, FlowInvCorrect, PTL
=============================================================================
