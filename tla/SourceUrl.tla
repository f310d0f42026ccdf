------------------------------ MODULE SourceUrl ------------------------------
(***************************************************************************)
(* Names of source files: a path as the engine reports it, the file: URL   *)
(* the client is told, and what the client sends back to set a breakpoint  *)
(* (debugger/src/debug_session.cpp:40-72, 154-302, 944-975,                *)
(* cdp_handler.cpp:158-165).                                               *)
(*                                                                         *)
(* A name is a sequence of pieces: "/", "\\" and ":", the scheme "file:",  *)
(* a drive letter, and words; a word may be cut in two where a part of it  *)
(* matters.                                                                *)
(***************************************************************************)
EXTENDS Integers, SequencesExt

CONSTANTS
    Drives,         \* drive letters, pieces of one character
    LowerOf,        \* function: pieces that have upper case -> in lower case
    Regexes,        \* regular expressions a client sends, ...
    BadRegexes,     \* ... those that std::regex does not accept, ...
    Finds(_, _)     \* ... and whether it finds one of the others in a name

ASSUME UrlAssumption ==
    /\ \A c \in DOMAIN LowerOf : LowerOf[c] \notin DOMAIN LowerOf
    /\ {"file:", "/", "\\"} \intersect (DOMAIN LowerOf \union Range(LowerOf)) = {}
    /\ BadRegexes \subseteq Regexes

Scheme == <<"file:", "/", "/">>

Lower(name) == [i \in 1..Len(name) |->
                   IF name[i] \in DOMAIN LowerOf THEN LowerOf[name[i]] ELSE name[i]]

\* normalize_url
Normalize(name) == [i \in 1..Len(name) |-> IF name[i] = "\\" THEN "/" ELSE name[i]]

\* to_file_url: absolute paths get the scheme.
ToFileUrl(name) ==
    LET norm  == Normalize(name)
        drive == Len(norm) >= 3 /\ norm[1] \in Drives /\ norm[2] = ":"
    IN  IF IsPrefix(Scheme, norm) \/ norm = <<>> THEN norm
        ELSE IF norm[1] = "/" THEN Scheme \o norm
        ELSE IF drive THEN Scheme \o (<<"/">> \o norm)
        ELSE norm

\* The handler of setBreakpointByUrl cuts the scheme off, and the slash
\* behind it, also where that belongs to the path.
Strip(url) ==
    IF IsPrefix(Append(Scheme, "/"), url) THEN SubSeq(url, Len(Scheme) + 2, Len(url))
    ELSE IF IsPrefix(Scheme, url) THEN SubSeq(url, Len(Scheme) + 1, Len(url))
    ELSE url

\* What is behind the last slash.
Base(name) == SubSeq(name, Max({i \in 1..Len(name) : name[i] = "/"} \union {0}) + 1, Len(name))

HasPart(name, part) ==
    \E i \in 0..Len(name) - Len(part) : SubSeq(name, i + 1, i + Len(part)) = part

\* paths_match
PathsMatch(windows, a, b) == IF windows THEN Lower(a) = Lower(b) ELSE a = b

\* The name itself, a part of it, or the like-named file of any directory: the
\* matching shared by the breakpoint table and the handler.
PlainMatch(windows, name, url) ==
    \/ PathsMatch(windows, name, url)
    \/ PathsMatch(windows, Base(name), Base(url))
    \/ HasPart(Lower(name), Lower(url))
    \/ HasPart(Lower(url), Lower(name))

\* A regular expression is looked for in the URL and in the path; then, and
\* when it is malformed, it is taken for a path.
Matches(windows, name, bp) ==
    \/ /\ bp.regex /\ bp.url \notin BadRegexes
       /\ Finds(bp.url, ToFileUrl(Normalize(name))) \/ Finds(bp.url, Normalize(name))
    \/ PlainMatch(windows, Normalize(name), bp.url)

\* find_script_id: the first script of that name, else of that base name;
\* "0" is no script's.
FindScript(windows, scripts, name) ==
    LET norm == Normalize(name)
        fits == {i \in 1..Len(scripts) :
                    \/ PathsMatch(windows, scripts[i], norm)
                    \/ PathsMatch(windows, Base(scripts[i]), Base(norm)) /\ Base(scripts[i]) # <<>>}
    IN  IF fits = {} THEN 0 ELSE Min(fits)
=============================================================================
