---------------------------- MODULE CurrentState ----------------------------
(***************************************************************************)
(* state/state.py: what becomes of a text on its way from the model's      *)
(* answer to the prompt of the next wake.  One list of entries stands for  *)
(* the four, which are treated alike; an entry is its text, which stands   *)
(* for its memory ids and its due date too: they are taken over as given.  *)
(***************************************************************************)
EXTENDS Naturals, Sequences, SequencesExt

CONSTANTS
    None,           \* Python's None; in a list, what is no text: a number, say
    Blank,          \* a blank character; the others are letters
    Letters,
    MaxEntries,     \* settings.state_max_entries
    MaxChars        \* settings.state_max_chars

ASSUME CurrentStateAssumption ==
    MaxEntries \in Nat /\ MaxChars \in Nat /\ Blank \notin Letters

\* Entry.from_dict, str.strip: without the blanks at either end.
Strip(text) ==
    LET letters == {n \in DOMAIN text : text[n] # Blank}
    IN  IF letters = {} THEN << >> ELSE SubSeq(text, Min(letters), Max(letters))

\* One item of a list: the entry it makes, if it makes one; what is no text is
\* skipped, and so is an entry without text.
Entry(item) ==
    IF item = None \/ Strip(item) = << >> THEN << >> ELSE <<Strip(item)>>

\* CurrentState.from_dict: a list as it was decoded -> the entries.
FromDict(items) ==
    LET entries[n \in 0 .. Len(items)] ==
            IF n = 0 THEN << >> ELSE entries[n - 1] \o Entry(items[n])
    IN  entries[Len(items)]

Cut(n, seq) == SubSeq(seq, 1, IF n < Len(seq) THEN n ELSE Len(seq))

\* Mutant: as many entries as allowed, however long.
FirstEntries(entries) == Cut(MaxEntries, entries)

\* CurrentState.clamp: the first entries, the beginning of each.
Clamp(entries) ==
    [n \in DOMAIN Cut(MaxEntries, entries) |-> Cut(MaxChars, entries[n])]

\* What a prompt may hold.
Bounded(entries) ==
    /\ Len(entries) <= MaxEntries
    /\ \A n \in DOMAIN entries :
          Len(entries[n]) \in 1 .. MaxChars /\ Strip(entries[n]) = entries[n]
=============================================================================
