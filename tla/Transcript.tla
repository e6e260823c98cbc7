----------------------------- MODULE Transcript -----------------------------
(***************************************************************************)
(* The transcript the terminal user interface keeps (fx-tui/src/app.rs):   *)
(* entries that grow as updates of the session come in, a running count of *)
(* their bytes by which the oldest are dropped, the index of each tool     *)
(* call's card, and the selected entry.                                    *)
(***************************************************************************)
EXTENDS Integers, Sequences, SequencesExt

CONSTANTS
  MessageKeys,         \* message identifiers; "none" is no identifier
  ToolKeys,            \* tool call identifiers
  Pieces,              \* sizes of a piece of text, of a card
  MaxTranscriptBytes,
  MaxUpdates           \* bound: updates

\* Sizes are numbers.
ASSUME TranscriptAssumption ==
  Pieces \subseteq Nat /\ MaxTranscriptBytes \in Nat /\ MaxUpdates \in Nat

Entry(kind, key, bytes) == [kind |-> kind, key |-> key, bytes |-> bytes]
NoTools == [key \in ToolKeys |-> 0]

VARIABLES
  entries,
  transcriptBytes,
  tools,               \* where the card of each call is; 0 is nowhere
  selectedEntry,       \* 0 is none
  updates

transcriptVars == <<entries, transcriptBytes, tools, selectedEntry, updates>>

Bytes(es) ==
  LET sum[n \in 0 .. Len(es)] == IF n = 0 THEN 0 ELSE sum[n - 1] + es[n].bytes
  IN  sum[Len(es)]
Least(a, b) == IF a < b THEN a ELSE b

\* rebuild_tool_indices: the last entry of each call.
Cards(es, key) == {i \in 1 .. Len(es) : es[i].kind = "tool" /\ es[i].key = key}
Indices(es) == [key \in ToolKeys |-> IF Cards(es, key) = {} THEN 0 ELSE Max(Cards(es, key))]

FirstOf(found) == IF found = {} THEN 0 ELSE Min(found)

\* How many of the oldest entries trim_transcript drops: as few as will do, never the last.
Dropped(es, bytes) ==
  CHOOSE n \in 0 .. Len(es) - 1 :
    /\ n = Len(es) - 1 \/ bytes - Bytes(SubSeq(es, 1, n)) <= MaxTranscriptBytes
    /\ \A m \in 0 .. n - 1 : bytes - Bytes(SubSeq(es, 1, m)) > MaxTranscriptBytes

\* Mutant: the indices are left as they were.
TrimStale(es, bytes, indices, selected) ==
  LET n == Dropped(es, bytes)
  IN  /\ entries' = SubSeq(es, n + 1, Len(es))
      /\ transcriptBytes' = bytes - Bytes(SubSeq(es, 1, n))
      /\ tools' = indices /\ selectedEntry' = selected

Trim(es, bytes, indices, selected) ==
  LET n == Dropped(es, bytes)
      kept == SubSeq(es, n + 1, Len(es))
  IN  /\ entries' = kept
      /\ transcriptBytes' = bytes - Bytes(SubSeq(es, 1, n))
      /\ tools' = IF n = 0 THEN indices ELSE Indices(kept)
      /\ selectedEntry' = IF n = 0 THEN selected ELSE Least(selected, Len(kept))

Update == updates < MaxUpdates /\ updates' = updates + 1

\* push_entry.  The new card's index is put in after the transcript was trimmed.
Push(e) ==
  Trim(Append(entries, e), transcriptBytes + e.bytes,
       IF e.kind = "tool" THEN [tools EXCEPT ![e.key] = Len(entries) + 1] ELSE tools,
       Len(entries) + 1)

\* The entry at an index gets another size.
Resize(i, bytes) ==
  Trim([entries EXCEPT ![i].bytes = bytes], transcriptBytes - entries[i].bytes + bytes, tools,
       selectedEntry)

\* append_chunk: a piece of a message is added to the last entry if it is of that message.
AppendMessageChunk(kind, key, bytes) ==
  /\ Update
  /\ IF entries # <<>> /\ Last(entries).kind = kind /\ key \in {"none", Last(entries).key}
     THEN Resize(Len(entries), Last(entries).bytes + bytes)
     ELSE Push(Entry(kind, key, bytes))

AddTool(key, bytes) == Update /\ Push(Entry("tool", key, bytes))

\* The entry the index leads to, if it is that call's, or else the first of that key; 0 if
\* there is none.
Card(key) ==
  IF tools[key] \in 1 .. Len(entries) /\ entries[tools[key]].key = key THEN tools[key]
  ELSE FirstOf({i \in 1 .. Len(entries) : entries[i].key = key})

UpdateTool(key, bytes) ==
  /\ Update
  /\ IF Card(key) = 0 THEN Push(Entry("tool", key, bytes)) ELSE Resize(Card(key), bytes)

UpdatePlan(bytes) ==
  LET plan == FirstOf({i \in 1 .. Len(entries) : entries[i].kind = "plan"})
  IN  /\ Update
      /\ IF plan = 0 THEN Push(Entry("plan", "none", bytes)) ELSE Resize(plan, bytes)

\* add_notice and mark_prompt_started.
AddEntry(kind, bytes) == Update /\ Push(Entry(kind, "none", bytes))

ClearTranscript ==
  /\ Update /\ entries' = <<>> /\ transcriptBytes' = 0 /\ tools' = NoTools /\ selectedEntry' = 0

\* select_previous and select_next.
Select(i) ==
  /\ entries # <<>>
  /\ i \in {IF selectedEntry = 0 THEN Len(entries) ELSE IF selectedEntry = 1 THEN 1 ELSE selectedEntry - 1,
            Least(IF selectedEntry = 0 THEN 2 ELSE selectedEntry + 1, Len(entries))}
  /\ selectedEntry' = i
  /\ UNCHANGED <<entries, transcriptBytes, tools, updates>>

TranscriptInit ==
  entries = <<>> /\ transcriptBytes = 0 /\ tools = NoTools /\ selectedEntry = 0 /\ updates = 0

TranscriptNext ==
  \/ \E bytes \in Pieces :
       \/ \E key \in MessageKeys \cup {"none"}, kind \in {"assistant", "thought"} :
            AppendMessageChunk(kind, key, bytes)
       \/ \E key \in ToolKeys : AddTool(key, bytes) \/ UpdateTool(key, bytes)
       \/ UpdatePlan(bytes) \/ AddEntry("notice", bytes)
  \/ ClearTranscript \/ \E i \in 1 .. Len(entries) : Select(i)

-----------------------------------------------------------------------------
\* However the transcript grew and was trimmed, the count is that of the bytes there are,
\* and within the limit unless one entry alone exceeds it; each call's index is that of its
\* last card, and a card is indexed; what is selected is there.
TranscriptSound ==
  /\ transcriptBytes = Bytes(entries)
  /\ transcriptBytes <= MaxTranscriptBytes \/ Len(entries) = 1
  /\ tools = Indices(entries)
  /\ selectedEntry \in 0 .. Len(entries)
=============================================================================
