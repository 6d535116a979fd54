------------------------------ MODULE FormFlow ------------------------------
(***************************************************************************)
(* The life of a form, from the draft on the host's page (FormAuthor,       *)
(* QuestionEditor) through the schemas of the protocol to the questions on  *)
(* the pages of the participants (FormRunner, Question...), their answers,  *)
(* and the rollups (aggregation.ts) the host's page draws (ResponseRollup). *)
(*                                                                         *)
(* This is about the values: every message arrives, one at a time.  Losses  *)
(* and interleavings are the subject of Responses and ParticipantClient.    *)
(* Numbers that the host types are counted in halves, so that some of them  *)
(* are not integers; a text answer is its length.                           *)
(***************************************************************************)
EXTENDS Naturals, Sequences, FiniteSets, SequencesExt, FiniteSetsExt

CONSTANTS
  Person,          \* the participants
  Prompt, Option,  \* the texts the host types
  Blank,           \* the empty string, one of both
  Half,            \* the numbers the host may type, in halves
  Length,          \* the lengths of what participants type
  MinOptions, MaxOptions,      \* 2 and 12
  MaxQuestions,                \* 20
  EditorLength, FormLength,    \* maxLength: 500, and at most 2000
  AnswerLength,                \* 2000
  MaxSamples,                  \* 20
  DraftQuestions, DraftOptions \* bounds of the model on the draft

ASSUME FormAssumption ==
  /\ Blank \in Prompt \cap Option
  /\ Half \subseteq Nat /\ Length \subseteq Nat
  /\ {MinOptions, MaxOptions, MaxQuestions, EditorLength, FormLength, AnswerLength,
      MaxSamples, DraftQuestions, DraftOptions} \subseteq Nat
  /\ MinOptions >= 1
  /\ FormLength <= AnswerLength
  /\ \E n \in Length : n > 0 /\ n <= EditorLength

VARIABLES
  draft,       \* the state `questions' of FormAuthor
  form,        \* the questions of the form issued; none before
  answered,    \* the state `answered' of each page's FormRunner
  responses,   \* what is stored
  refused,     \* a frame of a page or of the server that the other end rejected
  pressed      \* history: the buttons each person chose, by question

vars == <<draft, form, answered, responses, refused, pressed>>

Choice == {"single", "multi"}
Kind == Choice \cup {"text", "scale"}

TypeOK ==
  /\ \A i \in DOMAIN draft :
       /\ draft[i].kind \in Kind /\ draft[i].prompt \in Prompt
       /\ draft[i].kind \in Choice => draft[i].options \in Seq(Option)
       /\ draft[i].kind = "scale" => {draft[i].min, draft[i].max} \subseteq Nat
  /\ answered \in [Person -> SUBSET (DOMAIN form)]
  /\ \A r \in responses : r.who \in Person /\ r.question \in DOMAIN form
  /\ refused \subseteq {"response.submit", "response.rollup"}
  /\ \A b \in pressed : b[1] \in Person /\ b[2] \in DOMAIN form

FirstDraft == [kind |-> "single", prompt |-> Blank, options |-> <<Blank, Blank>>]

Init ==
  /\ draft = <<FirstDraft>>
  /\ form = <<>>
  /\ answered = [p \in Person |-> {}]
  /\ responses = {} /\ refused = {} /\ pressed = {}

----------------------------------------------------------------------------
(* The draft.                                                              *)

\* Defect: a question that had no options gets its prompt as the first one.
Convert_PromptAsOption(q, kind) ==
  IF kind \in Choice
    THEN [kind |-> kind, prompt |-> q.prompt,
          options |-> IF q.kind \in Choice THEN q.options ELSE <<q.prompt, Blank>>]
  ELSE IF kind = "text" THEN [kind |-> kind, prompt |-> q.prompt]
  ELSE [kind |-> kind, prompt |-> q.prompt, min |-> 2, max |-> 10]

\* convertKind: options survive between the two kinds of choice; a scale is 1 to 5.
Convert(q, kind) ==
  IF kind \in Choice
    THEN [kind |-> kind, prompt |-> q.prompt,
          options |-> IF q.kind \in Choice THEN q.options ELSE <<Blank, Blank>>]
  ELSE IF kind = "text" THEN [kind |-> kind, prompt |-> q.prompt]
  ELSE [kind |-> kind, prompt |-> q.prompt, min |-> 2, max |-> 10]

\* OptionsEditor: an option is changed, removed or added.
OptionEdits(options) ==
  {[options EXCEPT ![k] = t] : k \in DOMAIN options, t \in Option}
  \cup {RemoveAt(options, k) : k \in DOMAIN options}
  \cup {Append(options, Blank)}

\* What one edit makes of a question.
Edits(q) ==
  {Convert(q, kind) : kind \in Kind}
  \cup {[q EXCEPT !.prompt = t] : t \in Prompt}
  \cup (IF q.kind \in Choice THEN {[q EXCEPT !.options = o] : o \in OptionEdits(q.options)}
        ELSE {})
  \cup (IF q.kind = "scale"
          THEN {[q EXCEPT !.min = n] : n \in Half} \cup {[q EXCEPT !.max = n] : n \in Half}
          ELSE {})

OptionsOf(q) == IF q.kind \in Choice THEN Len(q.options) ELSE 0

\* Bound of the model.
WithinDraft(d) ==
  /\ Len(d) <= DraftQuestions
  /\ FoldFunction(LAMBDA q, n : n + OptionsOf(q), 0, d) <= DraftOptions

EditDraft(d) ==
  /\ form = <<>> /\ WithinDraft(d)
  /\ draft' = d
  /\ UNCHANGED <<form, answered, responses, refused, pressed>>

AddQuestion == EditDraft(Append(draft, FirstDraft))
UpdateAt(i) == \E q \in Edits(draft[i]) : EditDraft([draft EXCEPT ![i] = q])
RemoveQuestion(i) == EditDraft(RemoveAt(draft, i))

----------------------------------------------------------------------------
(* The issue of the form.                                                  *)

\* Those of the options that are not blank, in their order.
NonBlank(options) ==
  LET kept == {k \in DOMAIN options : options[k] # Blank}
      before(k) == Cardinality({j \in kept : j < k})
  IN [n \in 1..Cardinality(kept) |-> options[CHOOSE k \in kept : before(k) = n - 1]]

\* toQuestionsPayload: blank options are left out.
ToPayload(q) ==
  CASE q.kind \in Choice -> [q EXCEPT !.options = NonBlank(@)]
    [] q.kind = "text"  -> [kind |-> "text", prompt |-> q.prompt, maxLength |-> EditorLength]
    [] q.kind = "scale" -> [kind |-> "scale", prompt |-> q.prompt,
                            min |-> q.min, max |-> q.max, step |-> 2]

\* Defect: a choice needs no options.
OptionsAdmitted_Any(options) == Len(options) <= MaxOptions

OptionsAdmitted(options) ==
  /\ MinOptions <= Len(options) /\ Len(options) <= MaxOptions
  /\ Blank \notin ToSet(options)

Integer(n) == n % 2 = 0

\* QuestionSchema.
QuestionAdmitted(q) ==
  /\ q.prompt # Blank
  /\ q.kind \in Choice => OptionsAdmitted(q.options)
  /\ q.kind = "text"  => q.maxLength <= FormLength
  /\ q.kind = "scale" => Integer(q.min) /\ Integer(q.max)

\* FormSchema, in decodeClient and again in handleHostFormIssue.
FormAdmitted(questions) ==
  /\ Len(questions) \in 1..MaxQuestions
  /\ \A i \in DOMAIN questions : QuestionAdmitted(questions[i])

\* The button Issue; without questions it is disabled.  A form that is not
\* admitted comes back as an error, which the page shows.
Issue ==
  /\ form = <<>> /\ draft # <<>>
  /\ LET payload == [i \in DOMAIN draft |-> ToPayload(draft[i])] IN
       /\ FormAdmitted(payload)
       /\ form' = payload
  /\ UNCHANGED <<draft, answered, responses, refused, pressed>>

----------------------------------------------------------------------------
(* The pages of the participants.                                          *)

\* min, min + step, ..., while it is not above max.
Steps(q) == IF q.min > q.max THEN <<>>
            ELSE [k \in 1..((q.max - q.min) \div q.step + 1) |-> q.min + (k - 1) * q.step]

\* QuestionScale: a button for each value.
PageValues(q) == Steps(q)

\* The buttons of a question, each with its label.
Buttons(q) == IF q.kind \in Choice THEN q.options
              ELSE IF q.kind = "scale" THEN PageValues(q) ELSE <<>>

\* Defect: the text area takes any number of characters.
Typed_Unlimited(q) == Length \ {0}

\* QuestionText: at most maxLength characters, and not none.
Typed(q) == {n \in Length : n > 0 /\ n <= q.maxLength}

\* QuestionMulti: the boxes toggled; Submit is disabled while there is none.
Picks(q) == (SUBSET (DOMAIN q.options)) \ {{}}

\* The answers the page lets its reader give.
PageAnswers(q) ==
  CASE q.kind = "single" -> {[kind |-> "single", pick |-> k] : k \in DOMAIN q.options}
    [] q.kind = "multi"  -> {[kind |-> "multi", picks |-> s] : s \in Picks(q)}
    [] q.kind = "text"   -> {[kind |-> "text", text |-> n] : n \in Typed(q)}
    [] q.kind = "scale"  -> {[kind |-> "scale", value |-> v] : v \in ToSet(PageValues(q))}

\* ResponseValueSchema.
ValueAdmitted(v) ==
  CASE v.kind = "single" -> TRUE
    [] v.kind = "multi"  -> Cardinality(v.picks) <= MaxOptions
    [] v.kind = "text"   -> v.text <= AnswerLength
    [] v.kind = "scale"  -> Integer(v.value)

\* Which buttons are down when v is submitted.
Down(q, v) ==
  CASE v.kind = "single" -> {v.pick}
    [] v.kind = "multi"  -> v.picks
    [] v.kind = "text"   -> {}
    [] v.kind = "scale"  -> {k \in DOMAIN Buttons(q) : Buttons(q)[k] = v.value}

----------------------------------------------------------------------------
(* The rollups.                                                            *)

\* Defect: the answers to all questions of the form.
AnswersTo_All(i, R) == R

\* rollupFor: the answers to the question.
AnswersTo(i, R) == {r \in R : r.question = i}

\* Defect: the values stop before max.
RollupValues_Short(q) == IF Steps(q) = <<>> THEN <<>> ELSE Front(Steps(q))

\* The values of a scale, from a loop of its own.
RollupValues(q) == Steps(q)

\* The positions a value is counted at: of options whatever the kind of the
\* question, of scale values through the map from value to index.
CountedAt(q, v) ==
  IF q.kind = "scale"
    THEN IF v.kind = "scale" THEN {k \in DOMAIN RollupValues(q) : RollupValues(q)[k] = v.value}
         ELSE {}
    ELSE CASE v.kind = "single" -> {v.pick} \cap DOMAIN q.options
           [] v.kind = "multi"  -> v.picks \cap DOMAIN q.options
           [] OTHER             -> {}

\* The summary of a question; of text answers, how many samples it has: the last
\* of the list, in the order of random ids.
RollupFor(i, R) ==
  LET q == form[i]
      A == AnswersTo(i, R)
      labels == IF q.kind = "scale" THEN RollupValues(q) ELSE q.options
  IN IF q.kind = "text"
       THEN [total |-> Cardinality(A),
             samples |-> IF Cardinality(A) <= MaxSamples THEN Cardinality(A) ELSE MaxSamples]
       ELSE [total |-> Cardinality(A),
             labels |-> labels,
             counts |-> [k \in DOMAIN labels |->
                           Cardinality({r \in A : k \in CountedAt(q, r.value)})]]

\* ResponseRollupSchema, in the host's decodeServer.
RollupAdmitted(q, r) ==
  /\ q.prompt # Blank
  /\ q.kind = "text" => r.samples <= MaxSamples
  /\ q.kind \in Choice => OptionsAdmitted(r.labels)

\* FormRunner.record: the answer is submitted, and the question is answered as
\* far as the page knows; handleResponseSubmit stores it and pushes the rollups.
Answer(p, i) ==
  /\ i \notin answered[p]
  /\ \E v \in PageAnswers(form[i]) :
       LET R == responses \cup {[who |-> p, question |-> i, value |-> v]} IN
       /\ answered' = [answered EXCEPT ![p] = @ \cup {i}]
       /\ pressed' = pressed \cup {<<p, i, k>> : k \in Down(form[i], v)}
       /\ IF ValueAdmitted(v)
            THEN /\ responses' = R
                 /\ refused' = IF \A j \in DOMAIN form : RollupAdmitted(form[j], RollupFor(j, R))
                                 THEN refused ELSE refused \cup {"response.rollup"}
            ELSE refused' = refused \cup {"response.submit"} /\ UNCHANGED responses
  /\ UNCHANGED <<draft, form>>

Next ==
  \/ AddQuestion
  \/ \E i \in DOMAIN draft : UpdateAt(i) \/ RemoveQuestion(i)
  \/ Issue
  \/ \E p \in Person, i \in DOMAIN form : Answer(p, i)

Spec == Init /\ [][Next]_vars

----------------------------------------------------------------------------
(* Properties.                                                             *)

\* The bars the host sees are the buttons of the page, in the same order and
\* with the same labels, and each counts the participants who pressed its button,
\* also where two options read the same: the filter of blank options, the two
\* loops over a scale and the indices agree (toQuestionsPayload, QuestionScale,
\* rollupFor, ChoiceBars).
BarsMatch ==
  \A i \in DOMAIN form : form[i].kind # "text" =>
    LET r == RollupFor(i, responses) IN
    /\ r.labels = Buttons(form[i])
    /\ \A k \in DOMAIN r.labels :
         r.counts[k] = Cardinality({b \in pressed : b[2] = i /\ b[3] = k})

\* The total of a question is the number of participants whose page says
\* "Submitted", and no bar is longer than 100 per cent.
TotalsMatch ==
  \A i \in DOMAIN form :
    LET r == RollupFor(i, responses) IN
    /\ r.total = Cardinality({p \in Person : i \in answered[p]})
    /\ form[i].kind # "text" => \A k \in DOMAIN r.counts : r.counts[k] <= r.total

\* No end sends what the other end's schema rejects: an answer a page lets its
\* reader give is stored, a rollup the server makes is shown (ResponseValueSchema
\* against Question..., ResponseRollupSchema against rollupFor).
FramesAdmitted == refused = {}

\* Every question of an accepted form can be answered, but for a scale whose min
\* is above its max, which the schema admits; so a page can get to "All questions
\* answered".
Finishable ==
  \A i \in DOMAIN form :
    PageAnswers(form[i]) = {} => form[i].kind = "scale" /\ form[i].min > form[i].max
=============================================================================
