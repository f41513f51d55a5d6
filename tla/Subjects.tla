------------------------------ MODULE Subjects ------------------------------
(* Subjects (channel names) as sequences of tokens. The token "*" of a        *)
(* pattern stands for any token, a last token ">" for one or more tokens.     *)
EXTENDS Integers, Sequences, SequencesExt

pwc == "*"
fwc == ">"

\* util/sublist.go, matchLiteral, token by token.
TokensMatch(literal, subject) ==
    \A i \in DOMAIN subject : subject[i] \in {pwc, fwc, literal[i]}

matchLiteral(literal, subject) ==
    IF Last(subject) = fwc
    THEN Len(literal) >= Len(subject)
         /\ TokensMatch(literal, subject)
    ELSE Len(literal) = Len(subject) /\ TokensMatch(literal, subject)

\* What a subject means: the subjects without wildcard that it stands for.
Literals(subject, universe) == {literal \in universe : matchLiteral(literal, subject)}
=============================================================================
