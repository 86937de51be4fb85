------------------------------- MODULE LoginUrls -------------------------------
(***************************************************************************)
(* The Location of a redirect, byte by byte: authroute/src/decision.rs     *)
(* login_url and percent_encode, check.rs from_headers and original_url.   *)
(* Checks hands the URL to return to on as it is; that a portal gets it    *)
(* back is shown here.                                                     *)
(***************************************************************************)
EXTENDS Naturals, Sequences

CONSTANTS
    PortalUrl,         \* AUTHROUTE_PORTAL_URL
    Proto, Host, Uri   \* what the three headers hold

\* Texts are sequences of bytes; names for those that have a meaning here.
Byte == 0..255
Percent == 37
QuestionMark == 63

\* "Base URL of the auth portal" (config.rs): it has no query or fragment of
\* its own, which are not checked for.
ASSUME TextAssumption ==
    /\ PortalUrl \in Seq(Byte) /\ Proto \cup Host \cup Uri \subseteq Seq(Byte)
    /\ \A i \in DOMAIN PortalUrl : PortalUrl[i] \notin {QuestionMark, 35}

\* Letters, digits and "-_.~".
Unreserved == (65..90) \cup (97..122) \cup (48..57) \cup {45, 46, 95, 126}

\* A hexadecimal digit, in upper case.
Hex(d) == IF d < 10 THEN 48 + d ELSE 55 + d

\* Mutant: "%{b:X}", without leading zeros.
EscapedUnpadded(b) ==
    IF b < 16 THEN <<Percent, Hex(b)>> ELSE <<Percent, Hex(b \div 16), Hex(b % 16)>>

Escaped(b) == <<Percent, Hex(b \div 16), Hex(b % 16)>>

PercentByte(b) == IF b \in Unreserved THEN <<b>> ELSE Escaped(b)

\* Hostname::new: "A" to "Z" in lower case, the rest as it is.
Lowered(host) ==
    [i \in DOMAIN host |-> IF host[i] \in 65..90 THEN host[i] + 32 ELSE host[i]]

\* proto, "://", host and uri.
OriginalUrl(proto, host, uri) == proto \o <<58, 47, 47>> \o host \o uri

\* The portal, "?rd=" and the encoded URL.
LoginUrl(encoded) == PortalUrl \o <<QuestionMark, 114, 100, 61>> \o encoded

-----------------------------------------------------------------------------
(* The loop of percent_encode.                                             *)

VARIABLES
    returnTo,   \* its input
    read,       \* the number of bytes it has read
    out,
    cut         \* history: the length of out before and after each byte

vars == <<returnTo, read, out, cut>>

Init ==
    /\ \E proto \in Proto, host \in Host, uri \in Uri :
          returnTo = OriginalUrl(proto, Lowered(host), uri)
    /\ read = 0 /\ out = <<>> /\ cut = <<0>>

Push(bytes) ==
    /\ out' = out \o bytes
    /\ read' = read + 1
    /\ cut' = Append(cut, Len(out) + Len(bytes))
    /\ UNCHANGED returnTo

\* Mutant: what looks escaped already is kept.
KeepPercent ==
    /\ read < Len(returnTo) /\ returnTo[read + 1] \in Unreserved \cup {Percent}
    /\ Push(<<returnTo[read + 1]>>)

Keep ==
    /\ read < Len(returnTo) /\ returnTo[read + 1] \in Unreserved
    /\ Push(<<returnTo[read + 1]>>)

Escape ==
    /\ read < Len(returnTo) /\ returnTo[read + 1] \notin Unreserved
    /\ Push(Escaped(returnTo[read + 1]))

Next == Keep \/ Escape

Spec == Init /\ [][Next]_vars

-----------------------------------------------------------------------------
(* A portal (external; M5): the value of rd in the query, form-decoded.    *)

\* The text from i on, up to a byte of `ends`.
UpTo(text, i, ends) ==
    SubSeq(text, i, (CHOOSE j \in i..Len(text) + 1 :
                        /\ j = Len(text) + 1 \/ text[j] \in ends
                        /\ \A k \in i..j - 1 : text[k] \notin ends) - 1)

Digit(c) == CASE c \in 48..57  -> c - 48
              [] c \in 65..70  -> c - 55
              [] c \in 97..102 -> c - 87
              [] OTHER -> 0

Decoded(text) ==
    LET from[i \in 1..Len(text) + 1] ==
            IF i > Len(text) THEN <<>>
            ELSE IF text[i] = Percent /\ i + 2 <= Len(text)
            THEN <<16 * Digit(text[i + 1]) + Digit(text[i + 2])>> \o from[i + 3]
            ELSE <<IF text[i] = 43 THEN 32 ELSE text[i]>> \o from[i + 1]
    IN  from[1]

\* What stands between the first "?" and a "#".
Query(url) == UpTo(url, Len(UpTo(url, 1, {QuestionMark})) + 2, {35})

\* Parameters start with the query and after each "&"; the first rd counts.
ValueOfRd(query) ==
    LET starts == {1} \cup {i + 1 : i \in {j \in DOMAIN query : query[j] = 38}}
        rd == {i \in starts : SubSeq(query, i, i + 2) = <<114, 100, 61>>}
    IN  IF rd = {} THEN <<>>
        ELSE Decoded(UpTo(query, (CHOOSE i \in rd : \A j \in rd : i <= j) + 3, {38}))

ReturnAddress(url) == ValueOfRd(Query(url))

-----------------------------------------------------------------------------
(* What makes it correct.                                                  *)

\* Nothing a query gives a meaning to, but the "%".
Written == Unreserved \cup {Percent}

\* The type invariant.
TypeOK ==
    /\ returnTo \in Seq(Byte) /\ read \in 0..Len(returnTo)
    /\ out \in Seq(Written)
    /\ cut \in Seq(Nat) /\ Len(cut) = read + 1

\* text is the first n bytes of s, each as PercentByte has it: the k-th takes
\* the place between the k-th and the next of `ends`.
Encodes(text, s, n, ends) ==
    /\ ends[1] = 0 /\ ends[n + 1] = Len(text)
    /\ \A k \in 1..n :
          /\ ends[k + 1] = ends[k] + Len(PercentByte(s[k])) /\ ends[k + 1] <= Len(text)
          /\ \A j \in 1..Len(PercentByte(s[k])) : text[ends[k] + j] = PercentByte(s[k])[j]

\* After every byte, what is written encodes what is read; encodings can be
\* told apart (LoginUrlsProofs), so no two URLs share one.
InductiveInvariant == TypeOK /\ Encodes(out, returnTo, read, cut)

\* Whatever a request's URL holds - queries, escapes, "&", "+", "#", tabs - the
\* portal sends the user back to exactly that URL, the host in lower case.
ReturnsWhereAsked ==
    read = Len(returnTo) => ReturnAddress(LoginUrl(out)) = returnTo
=============================================================================
