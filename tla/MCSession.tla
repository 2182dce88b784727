----------------------------- MODULE MCSession -----------------------------
EXTENDS Session

L(c, o, v) == [cmd |-> c, opnd |-> o, val |-> v]

\* Startup code that falls through into the file loaded first.
MCBoot == <<"seq", "seq">>
MCStartup == <<"seq">>

\* A line with an instruction, and one without (a label, or an error).
MCAsmLines == {<<>>, <<"seq">>}

MCFile ==
  [prog    |-> [opens |-> TRUE, errs |-> 0, refs |-> {}, defs |-> {"s"},
                code |-> <<"exit">>],
   crash   |-> [opens |-> TRUE, errs |-> 0, refs |-> {}, defs |-> {},
                code |-> <<"fault", "exit">>],
   needs   |-> [opens |-> TRUE, errs |-> 0, refs |-> {"s"}, defs |-> {},
                code |-> <<"loop">>],
   broken  |-> [opens |-> TRUE, errs |-> 1, refs |-> {}, defs |-> {},
                code |-> <<>>],
   missing |-> [opens |-> FALSE, errs |-> 0, refs |-> {}, defs |-> {},
                code |-> <<>>]]

\* Lines with the operand their command asks for.
FullLines ==
  {L("exit", "none", 0), L("read", "str", "crash"),
   L("run", "none", 0), L("continue", "none", 0), L("step", "none", 0),
   L("step", "int", 2), L("print", "int", 2),
   L("breakpoint", "int", 2), L("delete", "int", 2),
   L("reinitialize", "none", 0), L("asm", "none", 0), L("args", "id", 0),
   L("unknown", "none", 0), NoLine}

\* The hypothesis of the proof of PromptRestored holds of these lines.
ASSUME FullLinesAssumption == FullOperands

PassArgs ==
  {<<"mapped_io">>, <<"prog">>, <<"missing">>, <<"broken">>, <<"needs">>,
   <<"prog", "needs">>, <<"crash">>, <<"broken", "prog">>, <<"mapped_io", "crash">>,
   <<"prog", "missing">>, <<"ast_only", "needs">>, <<"prog", "write_only">>,
   <<"crash", "crash">>}
=============================================================================
