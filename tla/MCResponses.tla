---------------------------- MODULE MCResponses -----------------------------
(* Responses with a form of two questions.                                  *)
EXTENDS Responses

CONSTANTS p1, p2, q1, q2

TwoQuestions == <<q1, q2>>
OneAnswersAll == {<<p1, q1>>, <<p1, q2>>, <<p2, q1>>}
=============================================================================
