-------------------------------- MODULE Text --------------------------------
(***************************************************************************)
(* What secfile does to the bytes it is given: reading a line and a menu   *)
(* choice, accepting user names and names of documents, finding the other  *)
(* spelling of an accented path, and quoting a field for the audit log.    *)
(*                                                                         *)
(* The functions are pure; each is set against a definition that says what *)
(* it is for, on every byte sequence that Type can build.  A definition    *)
(* whose name ends in _Word is the one before the _ with one plausible     *)
(* mistake in it.                                                          *)
(***************************************************************************)
EXTENDS Naturals, SequencesExt

CONSTANTS
    LineSize,    \* size of a buffer that a line is read into
    ChoiceSize,  \* MENU_CHOICE_BUF_SIZE
    UserSize,    \* AUTH_USERNAME_MAX
    NameSize,    \* FILEOPS_NAME_MAX
    NfdSize,     \* FILEOPS_NFD_BUF_LEN
    FieldSize,   \* LOG_FIELD_MAX
    Alphabet,    \* Alphabet[kind]: the bytes tried in texts of that kind
    MaxLen       \* bound: MaxLen[kind] bytes

Byte == 0..255
Kind == {"line", "choice", "name", "path", "field"}

ASSUME TextAssumption ==
    /\ {LineSize, ChoiceSize, UserSize, NameSize, NfdSize, FieldSize} \subseteq Nat \ {0, 1}
    /\ NfdSize >= 2 * NameSize
    /\ Alphabet \in [Kind -> SUBSET Byte] /\ MaxLen \in [Kind -> Nat]

VARIABLES kind, text
vars == <<kind, text>>

NUL == 0
NL == 10
Dot == 46
Slash == 47
Quote == 34
Backslash == 92

Take(s, n) == SubSeq(s, 1, IF n < Len(s) THEN n ELSE Len(s))
Drop(s, n) == SubSeq(s, n + 1, Len(s))
Has(s, b) == \E i \in DOMAIN s : s[i] = b

\* The bytes before the first b; all of them if there is none.
Before(s, b) == LET stops == {i \in DOMAIN s : s[i] = b}
                IN  IF stops = {} THEN s
                    ELSE Take(s, (CHOOSE i \in stops : \A j \in stops : i <= j) - 1)

-----------------------------------------------------------------------------
(***************************************************************************)
(* Lines: fgets and read_line.                                             *)
(***************************************************************************)
\* What fgets puts into a buffer of this size: a line with its newline, or as
\* much of it as fits.
Fgets(input, size) ==
    LET line == Before(input, NL)
    IN  Take(IF Has(input, NL) THEN Append(line, NL) ELSE line, size - 1)

AfterLine(input) == Drop(input, Len(Before(input, NL)) + 1)

\* (with the rest of a line that was cut left for the next read)
ReadLine_NoFlush(input, size) ==
    LET got == Fgets(input, size)
        str == Before(got, NUL)
        whole == str # <<>> /\ Last(str) = NL
    IN  [line |-> IF whole THEN Front(str) ELSE str, rest |-> Drop(input, Len(got))]

\* A newline that strlen finds last is cut off; otherwise the input is read
\* up to a newline, which may be that of the line after.
ReadLine(input, size) ==
    LET got == Fgets(input, size)
        str == Before(got, NUL)
        whole == str # <<>> /\ Last(str) = NL
        left == Drop(input, Len(got))
    IN  [line |-> IF whole THEN Front(str) ELSE str,
         rest |-> IF whole THEN left ELSE AfterLine(left)]

-----------------------------------------------------------------------------
(***************************************************************************)
(* Menu choices: read_menu_choice on a line of its own.                    *)
(***************************************************************************)
Blank == {9, 10, 11, 12, 13, 32}
Sign == {43, 45}
Digit == 48..57
NoChoice == 10

\* How many of the first bytes of t are of this set.
Leading(t, set) == LET others == {i \in DOMAIN t : t[i] \notin set}
                   IN  IF others = {} THEN Len(t)
                       ELSE (CHOOSE i \in others : \A j \in others : i <= j) - 1

\* strtol: blanks, a sign, digits; how many bytes it takes and their value.
Strtol(s) ==
    LET b == Leading(s, Blank)
        g == IF b < Len(s) /\ s[b + 1] \in Sign THEN 1 ELSE 0
        d == Leading(Drop(s, b + g), Digit)
        value[i \in 0..d] == IF i = 0 THEN 0 ELSE 10 * value[i - 1] + (s[b + g + i] - 48)
    IN  [used |-> IF d = 0 THEN 0 ELSE b + g + d,
         minus |-> g = 1 /\ s[b + 1] = 45,
         value |-> value[d]]

\* (with whatever follows the number ignored)
MenuChoice_NoEnd(input) ==
    LET line == ReadLine(input, ChoiceSize).line
        n == Strtol(line)
    IN  IF n.used > 0 /\ n.value <= 9 /\ (n.minus => n.value = 0)
          THEN n.value ELSE NoChoice

MenuChoice(input) ==
    LET line == ReadLine(input, ChoiceSize).line
        n == Strtol(line)
    IN  IF n.used > 0 /\ n.used = Len(line) /\ n.value <= 9 /\ (n.minus => n.value = 0)
          THEN n.value ELSE NoChoice

-----------------------------------------------------------------------------
(***************************************************************************)
(* Names: users_username_is_safe, owner_is_safe, stored_name_is_safe.      *)
(***************************************************************************)
Alnum == (48..57) \cup (65..90) \cup (97..122)
NameByte == Alnum \cup {95, 45}      \* with _ and -

SafeUsername(name) ==
    /\ Len(name) \in 1..(UserSize - 1) /\ Head(name) # Dot
    /\ \A i \in DOMAIN name : name[i] \in NameByte

\* (without the bound on the length)
SafeOwner_AnyLength(name) ==
    /\ name # <<>> /\ \A i \in DOMAIN name : name[i] \in NameByte

SafeOwner(name) ==
    /\ Len(name) \in 1..(UserSize - 1)
    /\ \A i \in DOMAIN name : name[i] \in NameByte

Between(low, b, high) == low <= b /\ b <= high

\* (with encodings longer than they need be)
Utf8Len_Overlong(s) ==
    LET c == Head(s)
        len == IF Between(192, c, 223) THEN 2 ELSE IF Between(224, c, 239) THEN 3
               ELSE IF Between(240, c, 244) THEN 4 ELSE 0
    IN  IF len > 0 /\ len <= Len(s) /\ \A i \in 2..len : Between(128, s[i], 191)
          THEN len ELSE 0

\* utf8_sequence_len: the length of the sequence that s begins with, or 0.
Utf8Len(s) ==
    LET c == Head(s)
        len == IF Between(194, c, 223) THEN 2 ELSE IF Between(224, c, 239) THEN 3
               ELSE IF Between(240, c, 244) THEN 4 ELSE 0
        least == IF c = 224 THEN 160 ELSE IF c = 240 THEN 144 ELSE 128
    IN  IF /\ len > 0 /\ len <= Len(s)
           /\ Between(least, s[2], 191)
           /\ \A i \in 3..len : Between(128, s[i], 191)
        THEN len ELSE 0

\* The bytes that the loop of stored_name_is_safe steps over at byte i, 0 if it
\* refuses them.
Character(name, i) ==
    IF name[i] < 128 THEN IF name[i] \in NameByte \cup {Dot} THEN 1 ELSE 0
    ELSE Utf8Len(Drop(name, i - 1))

\* That loop, from byte i on.
Accepts(name) ==
    LET from[i \in 1..(Len(name) + 1)] ==
            \/ i > Len(name)
            \/ Character(name, i) > 0 /\ from[i + Character(name, i)]
    IN  from[1]

SafeStoredName(name) ==
    /\ Len(name) \in 1..(NameSize - 1) /\ Head(name) # Dot
    /\ \A i \in 2..Len(name) : ~(name[i - 1] = Dot /\ name[i] = Dot)
    /\ Accepts(name)

-----------------------------------------------------------------------------
(***************************************************************************)
(* to_nfd_fallback: the letters of the table, here its capitals as         *)
(* <<second byte, base letter, second byte of the mark>>, are C3 xx, and   *)
(* become the letter and a mark CC yy.                                     *)
(***************************************************************************)
Capitals == { <<128, 65, 128>>, <<129, 65, 129>>, <<130, 65, 130>>, <<131, 65, 131>>,
    <<132, 65, 136>>, <<133, 65, 138>>, <<135, 67, 167>>, <<136, 69, 128>>,
    <<137, 69, 129>>, <<138, 69, 130>>, <<139, 69, 136>>, <<140, 73, 128>>,
    <<141, 73, 129>>, <<142, 73, 130>>, <<143, 73, 136>>, <<145, 78, 131>>,
    <<146, 79, 128>>, <<147, 79, 129>>, <<148, 79, 130>>, <<149, 79, 131>>,
    <<150, 79, 136>>, <<153, 85, 128>>, <<154, 85, 129>>, <<155, 85, 130>>,
    <<156, 85, 136>>, <<157, 89, 129>> }

NfdTable == Capitals \cup {<<t[1] + 32, t[2] + 32, t[3]>> : t \in Capitals}

Precomposed(path, i) ==
    {t \in NfdTable : path[i] = 195 /\ i < Len(path) /\ path[i + 1] = t[1]}

TooLong == <<NUL>>

\* (with one byte only taken from the input for each letter)
Nfd_OneByte(path) ==
    LET from[i \in 1..(Len(path) + 1)] ==
            IF i > Len(path) THEN <<>>
            ELSE LET found == Precomposed(path, i) IN
                 IF found = {} THEN <<path[i]>> \o from[i + 1]
                 ELSE LET t == CHOOSE t \in found : TRUE
                      IN  <<t[2], 204, t[3]>> \o from[i + 1]
    IN  IF Len(from[1]) < NfdSize THEN from[1] ELSE TooLong

Nfd(path) ==
    LET from[i \in 1..(Len(path) + 1)] ==
            IF i > Len(path) THEN <<>>
            ELSE LET found == Precomposed(path, i) IN
                 IF found = {} THEN <<path[i]>> \o from[i + 1]
                 ELSE LET t == CHOOSE t \in found : TRUE
                      IN  <<t[2], 204, t[3]>> \o from[i + 2]
    IN  IF Len(from[1]) < NfdSize THEN from[1] ELSE TooLong

-----------------------------------------------------------------------------
(***************************************************************************)
(* json_escape.                                                            *)
(***************************************************************************)
Escape(c) == IF c \in {Quote, Backslash} THEN <<Backslash, c>>
             ELSE IF c < 32 THEN <<32>> ELSE <<c>>

\* (with no look at the room left before the second byte of an escape)
JsonEscape_Cuts(src) ==
    Take(FlattenSeq([i \in DOMAIN src |-> Escape(src[i])]), FieldSize - 1)

\* It stops at the first byte whose escape does not fit.
JsonEscape(src) ==
    LET str == Before(src, NUL)
        dst[n \in 0..Len(str)] == IF n = 0 THEN <<>> ELSE dst[n - 1] \o Escape(str[n])
        fits(n) == Len(dst[n]) < FieldSize
    IN  dst[CHOOSE n \in 0..Len(str) : fits(n) /\ (n < Len(str) => ~fits(n + 1))]

-----------------------------------------------------------------------------
\* A text of some kind is typed, byte by byte.
Type(b) == /\ Len(text) < MaxLen[kind]
           /\ text' = Append(text, b)
           /\ UNCHANGED kind

Init == kind \in Kind /\ text = <<>>
Next == \E b \in Alphabet[kind] : Type(b)
Spec == Init /\ [][Next]_vars

-----------------------------------------------------------------------------
(***************************************************************************)
(* Properties.                                                             *)
(***************************************************************************)
\* Each prompt gets the line typed for it, as much of it as fits, and the next
\* prompt the next line: nothing that was cut is taken for another answer.
\* Only a NUL in a line makes read_line swallow the line after it as well.
OneLinePerRead == kind = "line" =>
    LET got == ReadLine(text, LineSize)
        typed == Before(text, NL)
    IN
    /\ got.line = Before(Take(typed, LineSize - 1), NUL)
    /\ got.rest \in {AfterLine(text)} \cup
           (IF Has(typed, NUL) THEN {AfterLine(AfterLine(text))} ELSE {})

\* The value a whole line denotes: blanks, at most one sign, and digits.
Denotes(line, v) ==
    \E b \in 0..Len(line), g \in 0..1 :
        /\ b + g < Len(line)
        /\ \A i \in 1..b : line[i] \in Blank
        /\ g = 1 => line[b + 1] \in Sign /\ (line[b + 1] = 45 => v = 0)
        /\ LET digits == Drop(line, b + g) IN
           /\ \A i \in DOMAIN digits : digits[i] \in Digit
           /\ \A i \in 1..(Len(digits) - 1) : digits[i] = 48
           /\ Last(digits) = 48 + v

\* A choice is what the bytes that the buffer kept of its line denote, up to a
\* NUL, and no choice if they denote none.  Of a number that had to be cut the
\* first digits are therefore taken only if all but the last one kept are
\* padding: '1000000' is refused by the eight bytes of the code's buffer, while
\* '00000012' is the choice 1.
ChoiceIsMeant == kind = "choice" =>
    LET kept == Before(Take(Before(text, NL), ChoiceSize - 1), NUL)
        c == MenuChoice(text)
    IN
    /\ c \in 0..9 \cup {NoChoice}
    /\ \A v \in 0..9 : c = v <=> Denotes(kept, v)

\* The code point that the bytes of a sequence carry.
CodePoint(s) ==
    IF Len(s) = 2 THEN 64 * (s[1] - 192) + (s[2] - 128)
    ELSE IF Len(s) = 3 THEN 4096 * (s[1] - 224) + 64 * (s[2] - 128) + (s[3] - 128)
    ELSE 262144 * (s[1] - 240) + 4096 * (s[2] - 128) + 64 * (s[3] - 128) + (s[4] - 128)

\* A sequence in its shortest form, of a code point up to 13FFFF.  (Surrogates
\* and the code points above 10FFFF are let through.)
Shortest(s) ==
    /\ \A i \in 2..Len(s) : Between(128, s[i], 191)
    /\ \/ Len(s) = 2 /\ Between(192, s[1], 223) /\ CodePoint(s) >= 128
       \/ Len(s) = 3 /\ Between(224, s[1], 239) /\ CodePoint(s) >= 2048
       \/ Len(s) = 4 /\ Between(240, s[1], 247) /\ CodePoint(s) >= 65536
    /\ CodePoint(s) < 1310720

Accepted(name) ==
    LET from[i \in 1..(Len(name) + 1)] ==
            \/ i > Len(name)
            \/ \E n \in 1..4 :
                  /\ i + n <= Len(name) + 1
                  /\ from[i + n]
                  /\ LET s == SubSeq(name, i, i + n - 1) IN
                     (n = 1 /\ s[1] \in NameByte \cup {Dot}) \/ Shortest(s)
    IN  from[1]

\* The bytes of a document's name are accepted exactly when they are letters,
\* digits, '_', '-', '.' and characters of more than one byte, each in its only
\* encoding, so that no two accepted spellings stand for one character and no
\* byte hides another; an accepted name stays in its directory.
StoredNamesStay == kind = "name" =>
    /\ Accepts(text) <=> Accepted(text)
    /\ SafeStoredName(text) => text[1] # Dot /\ ~Has(text, Slash) /\ ~Has(text, NUL)

\* Whoever can be given an account can own documents, and nobody else.
UsersCanOwn == kind = "name" => (SafeUsername(text) <=> SafeOwner(text))

\* A letter and a mark that stand for one of the table's letters.
Decomposed(path, i) ==
    {t \in NfdTable : /\ i + 2 <= Len(path) /\ path[i] = t[2]
                      /\ path[i + 1] = 204 /\ path[i + 2] = t[3]}

\* The path with each of them put together.
Composed(path) ==
    LET from[i \in 1..(Len(path) + 1)] ==
            IF i > Len(path) THEN <<>>
            ELSE LET found == Decomposed(path, i) IN
                 IF found = {} THEN <<path[i]>> \o from[i + 1]
                 ELSE LET t == CHOOSE t \in found : TRUE
                      IN  <<195, t[1]>> \o from[i + 3]
    IN  from[1]

\* The second spelling that the code looks for a file under, of a path that a
\* prompt can return, fits its buffer; it is spelt the same the second time;
\* characters that were whole stay whole; and put together it is what the path
\* put together is, so that nobody is handed a file with another name.
NfdIsOtherSpelling == (kind = "path" /\ Len(text) < NameSize /\ ~Has(text, NUL)) =>
    LET nfd == Nfd(text) IN
    /\ nfd # TooLong
    /\ Nfd(nfd) = nfd
    /\ Accepts(text) => Accepts(nfd)
    /\ Composed(nfd) = Composed(text)

\* What a reader of the log makes of the inside of a JSON string.  Unreadable,
\* which no byte is, stands for a bare quote or control character, for an
\* escape cut in half and for an escape that JSON does not have.
Unreadable == 256

Unescaped(s) ==
    LET from[i \in 1..(Len(s) + 1)] ==
            IF i > Len(s) THEN <<>>
            ELSE IF s[i] >= 32 /\ s[i] \notin {Quote, Backslash} THEN <<s[i]>> \o from[i + 1]
            ELSE IF s[i] = Backslash /\ i < Len(s) /\ s[i + 1] \in {Quote, Backslash}
                   THEN <<s[i + 1]>> \o from[i + 2]
            ELSE <<Unreadable>>
    IN  from[1]

\* No field breaks its line of the audit log: a reader understands all of it and
\* gets back what was logged, with blanks for control characters, as far as the
\* field goes.
FieldIsJson == kind = "field" =>
    LET out == JsonEscape(text)
        read == Unescaped(out)
        str == Before(text, NUL)
        plain == [i \in DOMAIN str |-> IF str[i] < 32 THEN 32 ELSE str[i]]
    IN
    /\ Len(out) < FieldSize
    /\ IsPrefix(read, plain)
    /\ Len(read) < Len(plain) => Len(out) >= FieldSize - 2
=============================================================================
