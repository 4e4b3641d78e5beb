----------------------------- MODULE GlobPattern -----------------------------
(* The search patterns of the KEYS command, over strings that are sequences  *)
(* of characters, and how the storage escapes them.                           *)
EXTENDS Naturals, Sequences

AnyString == "*"
AnyCharacter == "?"
Backslash == "\\"

PatternCharacters == {AnyString, AnyCharacter, "[", "]", Backslash}

Quoted(c) == IF c \in PatternCharacters THEN <<Backslash, c>> ELSE <<c>>

\* Every pattern character is preceded by a backslash.
escapeRedisSearchPatternCharacters(string) ==
    LET escaped[i \in 0..Len(string)] ==
            IF i = 0 THEN <<>> ELSE escaped[i - 1] \o Quoted(string[i])
    IN escaped[Len(string)]

\* Redis' matching, without character classes: "*" is any string, "?" any
\* character, and a backslash takes the meaning from the next character.  For
\* each position of the pattern: where the string may go on with what follows.
MatchFrom(pattern, string) ==
    LET From[i \in 1..Len(pattern) + 1] ==
            CASE i > Len(pattern) -> {Len(string) + 1}
              [] i <= Len(pattern) /\ pattern[i] = AnyString ->
                    {j \in 1..Len(string) + 1 : \E k \in From[i + 1] : j <= k}
              [] i < Len(pattern) /\ pattern[i] = Backslash ->
                    {j \in 1..Len(string) :
                        string[j] = pattern[i + 1] /\ j + 1 \in From[i + 2]}
              [] OTHER ->
                    {j \in 1..Len(string) :
                        pattern[i] \in {AnyCharacter, string[j]} /\ j + 1 \in From[i + 1]}
    IN From

Matches(pattern, string) == 1 \in MatchFrom(pattern, string)[1]

=============================================================================
