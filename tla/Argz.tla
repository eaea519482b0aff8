-------------------------------- MODULE Argz --------------------------------
(***************************************************************************)
(* main/s390-tools/argz.c: vectors of strings kept one behind the other,   *)
(* each with its NUL, in one allocated block.                              *)
(*                                                                         *)
(* A program has one vector, argz and len, and calls the functions on it,  *)
(* as it pleases; an allocation may fail.  A byte is a number, 0 is NUL,   *)
(* a text is a sequence of letters, and a pointer into the vector is the   *)
(* place of the byte it points to, from 1 on, or 0 for NULL.               *)
(***************************************************************************)
EXTENDS Integers, Sequences, SequencesExt, FiniteSetsExt

CONSTANTS Letters,    \* positive numbers
          Delim,      \* the letter given as delimiter
          MaxText,    \* bound of the length of the texts given
          MaxStrings, \* bound of the number of strings given
          MaxBytes,   \* bound of the length of the vector
          Patterns, Substitutes,  \* the texts given to argz_replace
          Rooms,      \* how many of its allocations succeed
          Null,
          Wild        \* a block that a write in front of it has spoilt

ASSUME LettersAreNoNul == Letters \subseteq Nat \ {0} /\ Delim \in Letters
ASSUME TextsAreOfLetters == Patterns \subseteq Seq(Letters) /\ Substitutes \subseteq Seq(Letters)
ASSUME BoundsAreNumbers == MaxText \in Nat /\ MaxStrings \in Nat /\ Rooms \subseteq Nat
ASSUME NullIsNoBlock == {Null, Wild} \cap Seq(Letters \cup {0}) = {} /\ Null # Wild

VARIABLES argz, len,  \* the vector: Null, Wild or a block of bytes, and its length
          call, err   \* history: the last call and what it returned

argzVars == <<argz, len, call, err>>

NUL == 0
Texts == UNION {[1..n -> Letters] : n \in 0..MaxText}
CString(text) == Append(text, NUL)
Block == IF argz \in {Null, Wild} THEN <<>> ELSE argz

(* ENOMEM from some functions leaves no vector but its old length: the     *)
(* program must not go on with it.                                         *)
Lost == argz = Null /\ len # 0

NoCall == [op |-> "none", at |-> 0, text |-> <<>>, with |-> <<>>]
Call(op, at, text, with) == [op |-> op, at |-> at, text |-> text, with |-> with]

InitArgz == argz = Null /\ len = 0 /\ call = NoCall /\ err = "0"

Returns(block, length, error) ==
    /\ length <= MaxBytes
    /\ argz' = block /\ len' = length /\ err' = error

(* realloc either moves the block with what is appended to it, or fails.   *)
Appended(buf) ==
    \/ Returns(Block \o buf, len + Len(buf), "0")
    \/ Returns(argz, len, "ENOMEM")

-----------------------------------------------------------------------------
(* The place of the NUL at or behind p                                     *)
NulFrom(b, p) == Min({q \in p..Len(b) : b[q] = NUL})

argz_next(entry) ==
    IF entry = 0 THEN IF len > 0 THEN 1 ELSE 0
    ELSE LET next == IF entry <= len THEN NulFrom(argz, entry) + 1 ELSE entry
         IN IF next > len THEN 0 ELSE next

argz_count ==
    LET from[p \in 1..len + 1] == IF p > len THEN 0 ELSE 1 + from[NulFrom(argz, p) + 1]
    IN from[1]

(* Error: one byte for the last NUL is not passed over.                    *)
argz_extract_Short ==
    LET from[p \in 1..len + 1] == IF p >= len THEN <<>> ELSE <<p>> \o from[NulFrom(argz, p) + 1]
    IN from[1]

argz_extract ==
    LET from[p \in 1..len + 1] == IF p > len THEN <<>> ELSE <<p>> \o from[NulFrom(argz, p) + 1]
    IN from[1]

-----------------------------------------------------------------------------
argz_add(text) ==
    /\ call' = Call("add", 0, text, <<>>)
    /\ Appended(CString(text))

argz_create(argv) ==
    /\ argz = Null
    /\ call' = Call("create", 0, <<>>, argv)
    /\ LET p[k \in 0..Len(argv)] == IF k = 0 THEN <<>> ELSE p[k - 1] \o CString(argv[k])
           block == p[Len(argv)]
       IN \/ Returns(IF block = <<>> THEN Null ELSE block, Len(block), "0")
          \/ block # <<>> /\ Returns(Null, len, "ENOMEM")

(* Error: a dropped delimiter is counted all the same.                     *)
CopiedUncounted(m, c) ==
    IF c # Delim THEN [m EXCEPT !.out = Append(@, c)]
    ELSE IF m.out # <<>> /\ Last(m.out) # NUL THEN [m EXCEPT !.out = Append(@, NUL)]
    ELSE m

(* A delimiter ends a string, or is dropped, and nlen counted down, where  *)
(* none has begun.                                                         *)
Copied(m, c) ==
    IF c # Delim THEN [m EXCEPT !.out = Append(@, c)]
    ELSE IF m.out # <<>> /\ Last(m.out) # NUL THEN [m EXCEPT !.out = Append(@, NUL)]
    ELSE [m EXCEPT !.nlen = @ - 1]

(* The loop that copies a text and its NUL behind start                    *)
Separated(start, text) ==
    LET m[rp \in 0..Len(text) + 1] ==
            IF rp = 0 THEN [out |-> start, nlen |-> Len(text) + 1]
            ELSE Copied(m[rp - 1], CString(text)[rp])
    IN m[Len(text) + 1]

argz_create_sep(text) ==
    /\ argz = Null
    /\ call' = Call("create_sep", 0, text, <<>>)
    /\ LET m == Separated(<<>>, text)
       IN \/ text = <<>> /\ Returns(Null, 0, "0")
          \/ text # <<>> /\ Returns(m.out, m.nlen, "0")
          \/ text # <<>> /\ Returns(Null, len, "ENOMEM")

(* The result of realloc goes to *argz at once: when it fails the vector   *)
(* is leaked, and its length stays.                                        *)
argz_add_sep(text) ==
    /\ call' = Call("add_sep", 0, text, <<>>)
    /\ LET m == Separated(Block, text)
       IN \/ text = <<>> /\ Returns(argz, len, "0")
          \/ text # <<>> /\ Returns(m.out, len + m.nlen, "0")
          \/ text # <<>> /\ Returns(Null, len, "ENOMEM")

argz_delete(entry) ==
    /\ call' = Call("delete", entry, <<>>, <<>>)
    /\ LET entry_len == NulFrom(argz, entry) + 1 - entry
           rest == SubSeq(argz, 1, entry - 1) \o SubSeq(argz, entry + entry_len, len)
       IN Returns(IF len = entry_len THEN Null ELSE rest, len - entry_len, "0")

(* Error: a place inside an entry is taken as it is.                       *)
EntryAsGiven(before) == before

(* Back to the beginning of the entry.  The loop stops behind a NUL, and   *)
(* nowhere else: from inside the first entry it comes to the byte in front *)
(* of the block, stops if that happens to be one, and otherwise goes on.   *)
EntryOf(before) ==
    LET back[p \in 1..before] == IF p = 1 \/ argz[p - 1] = NUL THEN p ELSE back[p - 1]
    IN back[before]

InFirst(before) == before \in 2..NulFrom(argz, 1)

argz_insert(before, text) ==
    /\ call' = Call("insert", before, text, <<>>)
    /\ \/ before = 0 /\ Appended(CString(text))
       \/ before > len /\ Returns(argz, len, "EINVAL")
       \/ /\ before \in 1..len
          /\ LET p == EntryOf(before)
             IN Returns(SubSeq(argz, 1, p - 1) \o CString(text) \o SubSeq(argz, p, len),
                        len + Len(text) + 1, "0")
       \/ /\ before \in 1..len /\ InFirst(before)
          /\ Returns(Wild, len + Len(text) + 1, "0")
       \/ before \in 1..len /\ Returns(argz, len, "ENOMEM")

argz_stringify ==
    /\ call' = Call("stringify", 0, <<>>, <<>>)
    /\ LET over[p \in 1..len] ==    \* what becomes of the bytes from p on
               LET nul == NulFrom(argz, p)
               IN IF nul >= len THEN SubSeq(argz, p, len)
                  ELSE Append(SubSeq(argz, p, nul - 1), Delim) \o over[nul + 1]
       IN Returns(IF len = 0 THEN argz ELSE over[1], len, "0")

-----------------------------------------------------------------------------
(* strstr: the place of the first str in text, or 0                        *)
StrStr(text, str) ==
    LET at == {p \in 1..Len(text) - Len(str) + 1 : SubSeq(text, p, p + Len(str) - 1) = str}
    IN IF at = {} THEN 0 ELSE Min(at)

From(arg, p) == SubSeq(arg, p, Len(arg))

(* The place behind the first match in arg from p on                       *)
AfterMatch(arg, p, str) == p + StrStr(From(arg, p), str) - 1 + Len(str)

(* One string with all its matches replaced, and what it takes: a copy of  *)
(* what precedes the first match, and two appends for each.                *)
Substituted(arg, str, with) ==
    LET to[p \in 1..Len(arg) + 1] ==
            LET match == StrStr(From(arg, p), str)
            IN IF match = 0 THEN From(arg, p)
               ELSE SubSeq(arg, p, p + match - 2) \o with \o to[AfterMatch(arg, p, str)]
    IN to[1]

Allocations(arg, str) ==
    LET from[p \in 1..Len(arg) + 1] ==
            IF StrStr(From(arg, p), str) = 0 THEN 0 ELSE 2 + from[AfterMatch(arg, p, str)]
    IN 1 + from[1]

(* The loop over the entries: dst is the new vector, which is begun at the *)
(* first match with a copy of all entries before; room is the number of    *)
(* allocations that still succeed.                                         *)
Take(m, n) == IF m.room < n THEN [m EXCEPT !.room = 0, !.err = "ENOMEM"]
              ELSE [m EXCEPT !.room = @ - n]

Put(m, bytes) == IF m.err = "0" THEN [m EXCEPT !.dst = @ \o bytes] ELSE m

Replaced(m, entry, str, with) ==
    LET arg == SubSeq(argz, entry, NulFrom(argz, entry) - 1)
        matches == StrStr(arg, str) # 0
        copied == Take(m, Allocations(arg, str))
        begun == IF copied.err = "0" /\ m.delayed_copy
                 THEN LET some == IF entry > 1 THEN Take(copied, 1) ELSE copied
                      IN [Put(some, SubSeq(argz, 1, entry - 1)) EXCEPT !.delayed_copy = FALSE]
                 ELSE copied
    IN IF m.err # "0" \/ (~matches /\ m.delayed_copy) THEN m
       ELSE IF ~matches THEN Put(Take(m, 1), CString(arg))
       ELSE IF begun.err # "0" THEN begun
       ELSE Put(Take(begun, 1), CString(Substituted(arg, str, with)))

(* Nothing to replace, or no match, leaves the vector as it is.            *)
argz_replace(str, with, room) ==
    /\ call' = Call("replace", 0, str, with)
    /\ LET start == [dst |-> <<>>, delayed_copy |-> TRUE, err |-> "0", room |-> room]
           loop[k \in 0..Len(argz_extract)] ==
               IF k = 0 THEN start
               ELSE Replaced(loop[k - 1], argz_extract[k], str, with)
           m == loop[Len(argz_extract)]
       IN \/ str = <<>> /\ Returns(argz, len, "0")
          \/ /\ str # <<>> /\ m.err = "0"
             /\ Returns(IF m.delayed_copy THEN argz ELSE m.dst,
                        IF m.delayed_copy THEN len ELSE Len(m.dst), "0")
          \/ str # <<>> /\ m.err # "0" /\ Returns(argz, len, m.err)

(* The program drops its vector, or what a failure has left of it.         *)
Drop == argz' = Null /\ len' = 0 /\ err' = "0" /\ call' = Call("drop", 0, <<>>, <<>>)

(* History is forgotten between two calls.  Of a program that has written  *)
(* in front of its block nothing more can be said.                         *)
GoOn == call' = NoCall /\ err' = "0" /\ UNCHANGED <<argz, len>>

CallAny ==
    \/ \E text \in Texts : \/ argz_add(text) \/ argz_add_sep(text)
                           \/ argz_create_sep(text)
                           \/ \E before \in 0..len + 1 : argz_insert(before, text)
    \/ \E argv \in UNION {[1..n -> Texts] : n \in 0..MaxStrings} : argz_create(argv)
    \/ \E i \in 1..argz_count : argz_delete(argz_extract[i])
    \/ argz_stringify
    \/ \E str \in Patterns, with \in Substitutes, room \in Rooms :
            argz_replace(str, with, room)

NextArgz ==
    \/ call # NoCall /\ GoOn
    \/ call = NoCall /\ argz # Wild /\ Drop
    \/ call = NoCall /\ argz # Wild /\ ~Lost /\ CallAny

ArgzSpec == InitArgz /\ [][NextArgz]_argzVars

-----------------------------------------------------------------------------
(* The reference: the strings between the NULs, and what each call does to *)
(* them.                                                                   *)
Cut(b, at) ==            \* b in pieces, without the bytes at the given places
    LET edges == {0, Len(b) + 1} \cup at
        Edge(k) == CHOOSE p \in edges : Cardinality({q \in edges : q < p}) = k
    IN [k \in 1..Cardinality(at) + 1 |-> SubSeq(b, Edge(k - 1) + 1, Edge(k) - 1)]

Strings(b) == Front(Cut(b, {p \in DOMAIN b : b[p] = NUL}))

Words(text) ==           \* empty words count at the end only
    LET words == Cut(text, {p \in DOMAIN text : text[p] = Delim})
        kept[k \in 0..Len(words)] ==
            IF k = 0 THEN <<>>
            ELSE IF words[k] = <<>> /\ k < Len(words) THEN kept[k - 1]
            ELSE Append(kept[k - 1], words[k])
    IN IF text = <<>> THEN <<>> ELSE kept[Len(words)]

Substitute(text, str, with) ==     \* from the left, letter by letter
    LET from[p \in 1..Len(text) + 1] ==
            IF p > Len(text) THEN <<>>
            ELSE IF p + Len(str) - 1 <= Len(text) /\ SubSeq(text, p, p + Len(str) - 1) = str
                 THEN with \o from[p + Len(str)]
            ELSE <<text[p]>> \o from[p + 1]
    IN from[1]

Joined(strings) ==
    LET from[k \in DOMAIN strings] ==
            IF k = Len(strings) THEN strings[k]
            ELSE strings[k] \o <<Delim>> \o from[k + 1]
    IN from[1]

EntryIndex(b, p) == 1 + Cardinality({q \in 1..p - 1 : b[q] = NUL})

Meaning(c, strings) ==
    CASE c.op = "add" -> Append(strings, c.text)
      [] c.op = "create" -> c.with
      [] c.op = "create_sep" -> Words(c.text)
      [] c.op = "add_sep" -> strings \o Words(c.text)
      [] c.op = "delete" -> RemoveAt(strings, EntryIndex(argz, c.at))
      [] c.op = "insert" -> IF c.at = 0 THEN Append(strings, c.text)
                            ELSE InsertAt(strings, EntryIndex(argz, c.at), c.text)
      [] c.op = "stringify" -> IF strings = <<>> THEN <<>> ELSE <<Joined(strings)>>
      [] c.op = "replace" -> IF c.text = <<>> THEN strings
                             ELSE [i \in DOMAIN strings |->
                                    Substitute(strings[i], c.text, c.with)]
      [] c.op = "drop" -> <<>>
      [] c.op = "none" -> strings

(* The length is that of the block, which ends with a NUL, and there is no *)
(* block of no bytes, but for what is lost or spoilt.                      *)
WellFormed ==
    \/ Lost \/ argz = Wild
    \/ /\ len = Len(Block)
       /\ argz = Null <=> len = 0
       /\ argz # Null => argz[len] = NUL /\ \A p \in 1..len : argz[p] \in Letters \cup {NUL}

(* A call that returns 0 does to the strings what it is for; one that      *)
(* returns an error has changed nothing, or has lost the vector.  Only an  *)
(* insertion at a pointer inside the first entry may write in front of the *)
(* block (argz.c:206).                                                     *)
DoesAsMeant ==
    [][IF argz' = Wild THEN argz = Wild \/ (call'.op = "insert" /\ InFirst(call'.at))
       ELSE IF err' = "0" THEN Strings(Block)' = Meaning(call', Strings(Block))
       ELSE \/ UNCHANGED <<argz, len>>
            \/ call'.op \in {"create", "create_sep", "add_sep"} /\ argz' = Null]_argzVars

(* Counting, extracting and going from entry to entry find all strings.    *)
QueriesFindAll ==
    ~Lost /\ argz # Wild =>
        LET strings == Strings(Block)
            places == argz_extract
        IN /\ argz_count = Len(strings)
           /\ [i \in DOMAIN places |-> SubSeq(argz, places[i], NulFrom(argz, places[i]) - 1)]
                = strings
           /\ places # <<>> => argz_next(0) = places[1]
           /\ \A i \in DOMAIN places :
                argz_next(places[i]) = IF i = Len(places) THEN 0 ELSE places[i + 1]
=============================================================================
