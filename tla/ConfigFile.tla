----------------------------- MODULE ConfigFile -----------------------------
(***************************************************************************)
(* rsc::config::ConfigFileSource (src/src/rsc/config/ConfigFileSource.cpp) *)
(* reading a configuration file: the constructor calls getOption until the *)
(* stream ends, storing each option it returns; provideOptions later hands *)
(* the stored options to a handler.                                        *)
(*                                                                         *)
(* A line is abstracted to what getOption makes of it once '#' comments    *)
(* and surrounding whitespace are stripped: blank, a section header with   *)
(* the text between the brackets, an option with its trimmed key and       *)
(* value, a line without '=', or a line with a '\r' neither first nor last *)
(* (old Mac line ends).  Texts are sequences of name atoms and "." so the  *)
(* section prefix and the key are concatenated as the code concatenates    *)
(* strings.  The options map is keyed by the concatenated name:            *)
(* splitKeyAtDots, whose source is not at hand, is taken to be injective   *)
(* on these names.  The header `[]` is left out (see SectionPrefix).       *)
(***************************************************************************)
EXTENDS Naturals, SequencesExt, Functions

CONSTANTS
    SectionTexts, \* texts between '[' and ']', each non-empty
    KeyTexts,     \* trimmed texts before the first '='
    Values,       \* trimmed texts after it
    MaxLines      \* bound on the number of lines of a file

ASSUME <<>> \notin SectionTexts /\ MaxLines \in Nat

Blank == [kind |-> "blank"]
Section(s) == [kind |-> "section", text |-> s]
Option(k, v) == [kind |-> "option", key |-> k, value |-> v]
NoEquals == [kind |-> "noEquals"]
MacEOL == [kind |-> "macEOL"]

Lines == {Blank, NoEquals, MacEOL} \cup {Section(s) : s \in SectionTexts}
         \cup {Option(k, v) : k \in KeyTexts, v \in Values}
Files == UNION {[1..n -> Lines] : n \in 0..MaxLines}

VARIABLES
    input,          \* the stream's lines
    pos,            \* lines getline has consumed
    currentSection, \* ConfigFileSource::currentSection
    options,        \* ConfigFileSource::options
    status,         \* "parsing", "parsed" (constructed), "error" (threw)
    handled         \* the options provideOptions handed to the handler

vars == <<input, pos, currentSection, options, status, handled>>

Tokens == UNION {Range(t) : t \in SectionTexts \cup KeyTexts} \cup {"."}

TypeOK ==
    /\ input \in Files /\ pos \in 0..Len(input)
    /\ currentSection \in Seq(Tokens)
    /\ \A n \in DOMAIN options : n \in Seq(Tokens)
    /\ Range(options) \subseteq Values
    /\ status \in {"parsing", "parsed", "error"}
    /\ Range(handled) \subseteq Values

NoOptions == [n \in {} |-> <<>>]

Init ==
    /\ input \in Files
    /\ pos = 0
    /\ currentSection = <<>>
    /\ options = NoOptions
    /\ status = "parsing"
    /\ handled = NoOptions

-----------------------------------------------------------------------------
(* Mutant: line.substr(1, line.size() - 1), keeping the ']'. *)
SectionTextOffByOne(l) == Append(l.text, "]")

(* line.substr(1, line.size() - 2): the text between the brackets. *)
SectionText(l) == l.text

(* A section text becomes the prefix of the following keys, with a '.'    *)
(* appended unless it ends in one.  For `[]` the code reads               *)
(* *currentSection.rbegin() of an empty string, which this operator       *)
(* (Last of <<>>) does not define either.                                  *)
SectionPrefix(s) == IF Last(s) = "." THEN s ELSE Append(s, ".")

(* Mutant: options.insert, which keeps the first value of a key. *)
StoreFirst(n, v) == options @@ (n :> v)

(* options[key] = value: a later value replaces an earlier one. *)
Store(n, v) == (n :> v) @@ options

(* One pass of getOption's getline loop over the next line.  A blank line *)
(* (or one that is all comment) is skipped; a section header sets          *)
(* currentSection; an option line makes getOption return, and the          *)
(* constructor's loop stores it; the other lines throw invalid_argument,   *)
(* so the constructor fails.                                               *)
NextLine == input[pos + 1]

ReadBlank ==
    /\ status = "parsing" /\ pos < Len(input)
    /\ NextLine = Blank
    /\ pos' = pos + 1
    /\ UNCHANGED <<input, currentSection, options, status, handled>>

ReadSection ==
    /\ status = "parsing" /\ pos < Len(input)
    /\ NextLine.kind = "section"
    /\ pos' = pos + 1
    /\ currentSection' = SectionPrefix(SectionText(NextLine))
    /\ UNCHANGED <<input, options, status, handled>>

ReadOption ==
    /\ status = "parsing" /\ pos < Len(input)
    /\ NextLine.kind = "option"
    /\ pos' = pos + 1
    /\ options' = Store(currentSection \o NextLine.key, NextLine.value)
    /\ UNCHANGED <<input, currentSection, status, handled>>

RejectMacEOL ==
    /\ status = "parsing" /\ pos < Len(input)
    /\ NextLine = MacEOL
    /\ status' = "error"
    /\ UNCHANGED <<input, pos, currentSection, options, handled>>

RejectSyntax ==
    /\ status = "parsing" /\ pos < Len(input)
    /\ NextLine = NoEquals
    /\ status' = "error"
    /\ UNCHANGED <<input, pos, currentSection, options, handled>>

(* getline fails at the end of the stream: getOption returns false and    *)
(* the constructor completes.                                              *)
EndOfStream ==
    /\ status = "parsing" /\ pos = Len(input)
    /\ status' = "parsed"
    /\ UNCHANGED <<input, pos, currentSection, options, handled>>

(* provideOptions(handler): every stored option, each once. *)
ProvideOptions ==
    /\ status = "parsed" /\ handled # options
    /\ handled' = options
    /\ UNCHANGED <<input, pos, currentSection, options, status>>

Next ==
    \/ ReadBlank \/ ReadSection \/ ReadOption
    \/ RejectMacEOL \/ RejectSyntax
    \/ EndOfStream \/ ProvideOptions

Spec == Init /\ [][Next]_vars

-----------------------------------------------------------------------------
(* The documented format, stated over the whole file: a key belongs to the *)
(* nearest section header above it (header `[s]` or `[s.]` names section  *)
(* s, and its keys are s.key); the last line setting a key wins; a line    *)
(* without '=' or with an inner '\r' makes the file invalid.               *)
Valid(f) == \A i \in DOMAIN f : f[i] \notin {NoEquals, MacEOL}

SectionName(s) == IF Last(s) = "." THEN Front(s) ELSE s

FullKey(f, i) ==
    LET hs == {j \in 1..(i - 1) : f[j].kind = "section"}
    IN IF hs = {} THEN f[i].key
       ELSE SectionName(f[Max(hs)].text) \o <<".">> \o f[i].key

OptionLines(f) == {i \in DOMAIN f : f[i].kind = "option"}

RefOptions(f) ==
    [n \in {FullKey(f, i) : i \in OptionLines(f)} |->
        f[Max({i \in OptionLines(f) : FullKey(f, i) = n})].value]

(* A file the constructor accepts is a valid one, and what provideOptions  *)
(* hands over is exactly its documented options; a file it rejects is      *)
(* invalid.                                                                *)
ParsedAsDocumented ==
    /\ status = "parsed" => Valid(input) /\ options = RefOptions(input)
    /\ handled # NoOptions => handled = RefOptions(input)
    /\ status = "error" => ~Valid(input)
=============================================================================
