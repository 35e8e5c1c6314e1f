----------------------------- MODULE SecurityTxt -----------------------------
(***************************************************************************)
(* parse_security_txt: the security.txt section in the data of a program.  *)
(*                                                                         *)
(* Data is a sequence of tokens: the header, the footer, the null byte,    *)
(* the name of a field, or any other run of bytes.  Header and footer end  *)
(* with their own null byte.                                               *)
(*                                                                         *)
(* SlipFooterAnywhere is a deliberate mistake; no specification uses it.   *)
(***************************************************************************)
EXTENDS Integers, SequencesExt

CONSTANTS
    Header, Footer, Nul,
    Undecodable,       \* bytes that are no UTF-8
    RequiredFields,    \* the fields of SecurityTxt without a default
    OptionalFields     \* the others

KnownKeys == RequiredFields \cup OptionalFields

(* Tokens are different bytes.                                             *)
ASSUME TokenAssumption ==
    /\ Header # Footer /\ Nul \notin {Header, Footer, Undecodable}
    /\ Undecodable \notin {Header, Footer}
    /\ {Header, Footer, Nul, Undecodable} \cap KnownKeys = {}

(* data.find(token, from): 0 when there is none.                           *)
Find(data, token, from) == SelectInSubSeq(data, from, Len(data), LAMBDA t : t = token)

SlipFooterAnywhere(data) == Find(data, Footer, 1)

FooterOf(data) == Find(data, Footer, Find(data, Header, 1) + 1)

(* content.split at the null bytes: a segment starts at the beginning and  *)
(* behind each null byte, and is known by the place before it.  The empty  *)
(* segment that a null byte at the end leaves behind is dropped.           *)
Starts(content) == {p \in {0} \cup {q \in DOMAIN content : content[q] = Nul} : p < Len(content)}

EndOf(content, start) ==
    LET nul == Find(content, Nul, start + 1) IN IF nul = 0 THEN Len(content) + 1 ELSE nul

Part(content, start) == SubSeq(content, start + 1, EndOf(content, start) - 1)

(* A part that is the name of a field gives that field the next part as    *)
(* its value, whatever the part itself is; the last such part wins.        *)
PlacesOf(content, key) ==
    {p \in Starts(content) :
        Part(content, p) = <<key>> /\ EndOf(content, p) \in Starts(content)}

Fields(content) ==
    [key \in {k \in KnownKeys : PlacesOf(content, k) # {}} |->
        Part(content, EndOf(content, Max(PlacesOf(content, key))))]

Failed(error) == [outcome |-> error, fields |-> <<>>]
Found(fields) == [outcome |-> "found", fields |-> fields]

(* Every segment is decoded, also one that is no value.                    *)
Decodable(content) == Undecodable \notin ToSet(content)

parse_security_txt(data) ==
    LET start   == Find(data, Header, 1)
        end     == FooterOf(data)
        content == SubSeq(data, start + 1, end - 1)
    IN IF start = 0 \/ end = 0 THEN Failed("NoSecurityTxtFoundError")
       ELSE IF ~Decodable(content) THEN Failed("UnicodeDecodeError")
       ELSE IF ~(RequiredFields \subseteq DOMAIN Fields(content)) THEN Failed("TypeError")
       ELSE Found(Fields(content))
=============================================================================
