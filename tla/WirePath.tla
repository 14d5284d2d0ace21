------------------------------- MODULE WirePath -------------------------------
(***************************************************************************)
(* The path of one request, from the URI of the client to the file that a  *)
(* peer writes.  Every part of the node has its own way from a path to a   *)
(* file, and most of them decode escapes again: webdav.rs when the request *)
(* comes in, db.rs when it hashes and sizes the file, sync.rs when the     *)
(* event arrives and again when it touches the disk.                       *)
(*                                                                         *)
(* A character is its ASCII code.                                          *)
(***************************************************************************)
EXTENDS Integers, SequencesExt

CONSTANTS
    Char,       \* the characters of names
    MAX_NAME,   \* bound: of the length of a name
    NoPath

Hash == 35
Percent == 37
Slash == 47
Query == 63
Letter == 97   \* also a hexadecimal digit

ASSUME WirePathAssumption ==
    /\ {Slash, Percent} \subseteq Char /\ Char \subseteq 1..127 /\ Letter \notin Char
    /\ MAX_NAME \in Nat
    /\ NoPath \notin Seq(Nat)

VARIABLES
    name,           \* what the client means
    uri,            \* how it writes it
    to,             \* of a MOVE: the destination that it means, or NoPath
    stored,         \* the file in the data directory
    source, final,  \* source_path and final_path of the request
    kind,           \* of a MOVE: "renamed" or "moved"
    recorded, hashed, sized,    \* the row, and the files read for its checksum and size
    listed, scanned,            \* the entry of a scan, and the file read for it
    taken, written              \* on the peer: the file moved away, and the one written

request == <<name, uri, to, stored, source, final, kind>>
row == <<recorded, hashed, sized>>
scan == <<listed, scanned>>
peer == <<taken, written>>
vars == <<request, row, scan, peer>>

-----------------------------------------------------------------------------
(* The functions on paths.  A definition marked "Variant" is a plausible     *)
(* mistake in the code that the next definition translates.                  *)

IsHex(c) == c \in 48..57 \cup 65..70 \cup 97..102
HexValue(c) == IF c <= 57 THEN c - 48 ELSE IF c <= 70 THEN c - 55 ELSE c - 87

\* Variants: an escape at the end is left alone; the digits are not looked at.
EscapeBeforeEnd(s, i) == s[i] = Percent /\ i + 3 <= Len(s) /\ IsHex(s[i + 1]) /\ IsHex(s[i + 2])
EscapeAnyDigits(s, i) == s[i] = Percent /\ i + 2 <= Len(s)

EscapeAt(s, i) == s[i] = Percent /\ i + 2 <= Len(s) /\ IsHex(s[i + 1]) /\ IsHex(s[i + 2])

\* percent_decode_lossy, the same in the three files.
Decode(s) ==
    LET from[i \in 1..Len(s) + 1] ==
            IF i > Len(s) THEN <<>>
            ELSE IF EscapeAt(s, i)
                 THEN <<16 * HexValue(s[i + 1]) + HexValue(s[i + 2])>> \o from[i + 3]
                 ELSE <<s[i]>> \o from[i + 1]
    IN from[1]

\* What comes before the first "?" or "#".
Cut(s) ==
    LET ends == {i \in 1..Len(s) : s[i] \in {Query, Hash}}
    IN IF ends = {} THEN s
       ELSE SubSeq(s, 1, (CHOOSE i \in ends : \A j \in ends : i <= j) - 1)

Rooted(s) == IF s # <<>> /\ s[1] = Slash THEN s ELSE <<Slash>> \o s

\* Variant: decoded before it is cut.
NormalizeDecodedFirst(path) == Rooted(Cut(Decode(path)))

NormalizeRequestPath(path) == Rooted(Decode(Cut(path)))

\* Of the header, once scheme and host are dropped.
NormalizeDestination(path) == Rooted(Decode(Cut(path)))

\* Variant: not cut.
WireUncut(path) == Rooted(Decode(path))

\* normalize_wire_path, of a path that the other node has decoded.
NormalizeWirePath(path) == Rooted(Decode(Cut(path)))

\* The path without its slashes at the end, or at both ends.
TrimEnd(s) ==
    LET kept == {i \in 1..Len(s) : s[i] # Slash}
    IN IF kept = {} THEN <<>> ELSE SubSeq(s, 1, CHOOSE i \in kept : \A j \in kept : i >= j)
Trim(s) ==
    LET kept == {i \in 1..Len(s) : s[i] # Slash}
    IN IF kept = {} THEN <<>>
       ELSE SubSeq(TrimEnd(s), CHOOSE i \in kept : \A j \in kept : i <= j, Len(TrimEnd(s)))

\* db.rs normalize_path.
NormalizePath(path) == IF TrimEnd(path) = <<>> THEN <<Slash>> ELSE TrimEnd(path)

\* fs_path_from_wire_path, file_size and file_checksum_and_size: the file in the
\* data directory.
FsPath(path) == Trim(Decode(path))

\* webdav_path, of a file that the scan found.
WebdavPath(file) == <<Slash>> \o file

ParentPath(path) ==
    LET slashes == {i \in 1..Len(path) : path[i] = Slash}
    IN IF slashes \subseteq {1} THEN <<Slash>>
       ELSE SubSeq(path, 1, (CHOOSE i \in slashes : \A j \in slashes : i >= j) - 1)

-----------------------------------------------------------------------------
(* The client *)

HexDigit(n) == IF n < 10 THEN 48 + n ELSE 55 + n
Escaped(c) == <<Percent, HexDigit(c \div 16), HexDigit(c % 16)>>

\* A client may escape any character but the slash, and must escape those that
\* mean something else in a URI.
Forms(c) == IF c = Slash THEN {<<c>>}
            ELSE IF c \in {Percent, Hash, Query} THEN {Escaped(c)}
            ELSE {<<c>>, Escaped(c)}

\* It writes the next character of the name.
Writes(c) ==
    /\ stored = NoPath
    /\ Len(name) < MAX_NAME
    /\ c = Slash => name[Len(name)] # Slash
    /\ name' = Append(name, c)
    /\ \E form \in Forms(c) : uri' = uri \o form
    /\ UNCHANGED <<to, stored, source, final, kind, row, scan, peer>>

-----------------------------------------------------------------------------
(* The node of the client *)

\* The server stores what the name says; a file has no slash at the end.
Puts ==
    /\ stored = NoPath /\ name[Len(name)] # Slash
    /\ stored' = Trim(name)
    /\ source' = NormalizeRequestPath(uri) /\ final' = source'
    /\ UNCHANGED <<name, uri, to, kind, row, scan, peer>>

\* Variant: the folder of the URI as it came.
IsRenameUndecoded(dest) == ParentPath(dest) = ParentPath(uri)

\* map_to_event, for a destination that is normalized.
IsRename(dest) == ParentPath(dest) = ParentPath(NormalizeRequestPath(uri))

\* Destinations: a new name in the root or in the folder of the file, or the name
\* with a letter more; escaped throughout or as little as possible.  No name has
\* the letter, so none of them is the file itself, above it, or below it.
Destinations ==
    {<<Slash, Letter>>, TrimEnd(ParentPath(TrimEnd(name))) \o <<Slash, Letter>>,
     TrimEnd(name) \o <<Letter>>}

FormsOf(s, all) ==
    FlattenSeq([i \in 1..Len(s) |-> CHOOSE form \in Forms(s[i]) :
                    \A other \in Forms(s[i]) : IF all THEN Len(form) >= Len(other)
                                                 ELSE Len(form) <= Len(other)])

Moves ==
    /\ stored = NoPath /\ Len(name) > 1
    /\ \E dest \in Destinations, all \in BOOLEAN :
          /\ to' = dest
          /\ stored' = Trim(dest)
          /\ source' = NormalizeRequestPath(uri)
          /\ final' = NormalizeDestination(FormsOf(dest, all))
          /\ kind' = IF IsRename(final') THEN "renamed" ELSE "moved"
    /\ UNCHANGED <<name, uri, row, scan, peer>>

\* apply_event and manifest: the row, its checksum and, later, its size.
Records ==
    /\ stored # NoPath /\ recorded = NoPath
    /\ recorded' = NormalizePath(final)
    /\ hashed' = FsPath(final)
    /\ sized' = FsPath(recorded')
    /\ UNCHANGED <<request, scan, peer>>

\* scan_data_dir.
Scans ==
    /\ stored # NoPath /\ listed = NoPath
    /\ listed' = WebdavPath(stored)
    /\ scanned' = FsPath(listed')
    /\ UNCHANGED <<request, row, peer>>

-----------------------------------------------------------------------------
(* The peer *)

\* handle_incoming_event: what it moves or asks for, under the path of the event,
\* and what it writes.  A file that it asks for is looked up by the same functions.
Receives ==
    /\ stored # NoPath /\ written = NoPath
    /\ taken' = FsPath(NormalizeWirePath(source))
    /\ written' = FsPath(NormalizeWirePath(final))
    /\ UNCHANGED <<request, row, scan>>

-----------------------------------------------------------------------------
(* The specification *)

Init ==
    /\ name = <<Slash>> /\ uri = <<Slash>> /\ to = NoPath
    /\ stored = NoPath /\ source = NoPath /\ final = NoPath /\ kind = NoPath
    /\ recorded = NoPath /\ hashed = NoPath /\ sized = NoPath
    /\ listed = NoPath /\ scanned = NoPath /\ taken = NoPath /\ written = NoPath

Next ==
    \/ \E c \in Char : Writes(c)
    \/ Puts \/ Moves \/ Records \/ Scans \/ Receives

Spec == Init /\ [][Next]_vars

-----------------------------------------------------------------------------
(* Properties *)

\* What an escape stands for may be any byte.
Text == Seq(0..255)

TypeOK ==
    /\ name \in Seq(Char) /\ uri \in Text
    /\ {to, stored, source, final} \subseteq Text \cup {NoPath}
    /\ {recorded, hashed, sized, listed, scanned} \subseteq Text \cup {NoPath}
    /\ {taken, written} \subseteq Text \cup {NoPath}
    /\ kind \in {NoPath, "renamed", "moved"}

HasEscape(s) == \E i \in 1..Len(s) : EscapeAt(s, i)
IsPlain(s) == ~HasEscape(s) /\ \A i \in 1..Len(s) : s[i] \notin {Query, Hash}

\* However the client escapes it, the request is about the name that it means.
RequestMeansTheName ==
    stored # NoPath => /\ Trim(source) = Trim(name)
                       /\ Trim(final) = stored

\* A move within one folder is a rename, and no other; except of a folder that is
\* written with a slash at the end.
RenamesAreInPlace ==
    kind # NoPath /\ name[Len(name)] # Slash =>
        (kind = "renamed" <=> ParentPath(to) = ParentPath(name))

\* Checksum and size are those of the file that was stored, and the scan reads the
\* file that it lists, exactly if the name holds no escape of its own.
FileIsRead ==
    /\ recorded # NoPath =>
          (hashed = stored <=> ~HasEscape(stored)) /\ (sized = stored <=> ~HasEscape(stored))
    /\ listed # NoPath => (scanned = stored <=> ~HasEscape(stored))

\* The peer changes the file of the same name, exactly if the name holds neither an
\* escape nor a character that ends the path of a URI.
PeerChangesTheSameFile ==
    written # NoPath =>
        /\ written = stored <=> IsPlain(stored)
        /\ taken = Trim(name) <=> IsPlain(name)
=============================================================================
