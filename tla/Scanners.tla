------------------------------- MODULE Scanners -------------------------------
(***************************************************************************)
(* The four scanners, each on an input of its own: the tokenizer of the    *)
(* SSH command, the header of a bundle, the ref lines of a push, and the   *)
(* arguments of gitd repo.                                                 *)
(***************************************************************************)
EXTENDS Naturals, Sequences, FiniteSets

CONSTANTS
  Quote, Space, Others, MaxLen,
  MaxHeader,
  Zero, Ids, MaxRefLines,
  MaxArgs

VARIABLES
  input, words,
  file, header,
  lines, strict, loose,
  args, flags, added

Command == INSTANCE ParseCommand WITH scan <- words

Header == INSTANCE BundleFormat WITH scan <- header, MaxLines <- MaxHeader

RefReaders == INSTANCE RefLines WITH MaxLines <- MaxRefLines

Repo == INSTANCE RepoCommand

\* The two characters that count in a command are not the same.
ASSUME ScannersAssumption == Quote # Space

scanners == <<input, words, file, header, lines, strict, loose, args, flags, added>>

\* ParseCommand returns the words of its input, and an error exactly for an open
\* quote.
IsWords == Command!IsWords

\* bundleObjectFormat follows the table of headers in its comment, and nothing
\* behind the header counts.
FollowsTable == Header!FollowsTable

\* Post-receive announces exactly the updates that pre-receive has checked.
AnnouncesWhatWasChecked == RefReaders!AnnouncesWhatWasChecked

\* --yes means the same wherever it stands on the command line of gitd repo.
YesAnywhere == Repo!YesAnywhere
==============================================================================
