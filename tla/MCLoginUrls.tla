------------------------------ MODULE MCLoginUrls ------------------------------
(* Small instances of LoginUrls: every byte a readable header value can      *)
(* hold, and all short runs of those that mean something to a URL.           *)
EXTENDS LoginUrls

\* HeaderValue::to_str accepts visible ASCII, spaces and tabs.
Readable == {9} \cup 32..126

\* A " %&+/?=#" and the digits an escape may be taken from.
Awkward == {32, 37, 38, 43, 47, 61, 63, 35, 50, 70}

MCPortal == <<112, 47>>
MCProto == {<<104>>, <<104, 115>>}
MCHost == {<<97>>, <<65, 90, 58, 56>>, <<>>}
MCUri ==
    {<<47, b>> : b \in Readable}
    \cup {<<b, c>> : b, c \in Awkward} \cup {<<47, b, c, d>> : b, c, d \in Awkward}
=============================================================================
