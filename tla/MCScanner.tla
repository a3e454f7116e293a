------------------------------ MODULE MCScanner ------------------------------
(* scanner() on every short text over the characters that matter to it.    *)
EXTENDS Scanner, FiniteSets

CONSTANTS MaxMixed, MaxLoops

LOCAL INSTANCE Texts

\* Runs, single commands, brackets and a comment; and longer texts made of
\* brackets and one run only, for deep and long loop structures.
MCSources == TextsOver({"+", ">", "[", "]", ".", "("}, MaxMixed)
             \cup TextsOver({"-", "[", "]"}, MaxLoops)

\* What test.c:296 asserts: a text with a '(' that no ')' follows is refused.
UnclosedLambdaIsRefused ==
  status = "ok" =>
    \A k \in DOMAIN src :
       src[k] = "(" => \E m \in (k + 1) .. Len(src) : src[m] = ")"
=============================================================================
