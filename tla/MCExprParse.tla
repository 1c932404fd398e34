---------------------------- MODULE MCExprParse ----------------------------
(* Expressions of up to nine lexemes over five names, with a few ways for  *)
(* the names to be ordered and to share bits.                              *)
EXTENDS ExprValue

MCNames == <<"a", "b", "c", "d", "e">>
MCValuations == {<<0, 1, 2, 3, 4>>, <<2, 1, 3, 0, 1>>, <<1, 2, 0, 2, 1>>,
                 <<1, 1, 1, 3, 0>>}
MCInfix == {"*", "-", "<", "&&", "||", "="}

=============================================================================
