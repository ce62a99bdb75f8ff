---------------------------- MODULE MCEval ----------------------------
(* Eval for TLC: replies a millisecond and more off, with an operation too many, *)
(* none, past the source and outside the schema.                                 *)
EXTENDS Eval

MCDeviant == { <<>>,
               <<Cut(0, 10001)>>,
               <<Cut(0, 10002)>>,
               <<Cut(0, 10000), FadeIn(0, 1000)>>,
               <<Cut(0, 10400), FadeOut(89100, 5000)>>,
               <<Cut(0, 10000), FadeOut(91000, 2000)>>,
               <<FadeOut(118000, 5000)>>,
               <<Concat(2, FALSE)>>,
               <<Resize(1280, 721)>>,
               <<Cut(30000, 300000), Resize(1280, 721)>> }

MCFrameCases == << [kind |-> "frames", instruction |-> {"cut_10"},
                    source |-> Src(60000, TRUE), frames |-> {0, 5000}],
                   [kind |-> "frames", instruction |-> {"something_else"},
                    source |-> Src(60000, TRUE), frames |-> {}] >>
=============================================================================
