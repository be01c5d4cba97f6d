---------------------------- MODULE RoutineChunks ----------------------------
(***************************************************************************)
(* How a routine batch for Discord is cut into messages                    *)
(* (split_discord_routine_chunks in src/dispatch.rs): the rendered items   *)
(* in order, joined by a separator of one character, as many to a message  *)
(* as the limit allows; an item that is too long alone is cut to the limit *)
(* and sent by itself.  An item is abstracted to its length.               *)
(***************************************************************************)
EXTENDS Naturals, Sequences

CONSTANTS Limit,     \* MAX_SCALARS
          MaxItems   \* bound of the items in a batch

ASSUME ChunkConstants == Limit \in Nat \ {0} /\ MaxItems \in Nat

VARIABLES lens,     \* item_lens
          next,     \* the next item
          open,     \* current_items
          openLen,  \* current_len
          chunks,   \* the messages so far: [items, len]
          totals    \* history: totals[k], the lengths of the first k items together

chunkVars == <<lens, next, open, openLen, chunks, totals>>

Lengths == 0..(Limit + 2)

ChunkInit ==
  /\ \E n \in 0..MaxItems : lens \in [1..n -> Lengths]
  /\ next = 1
  /\ open = <<>> /\ openLen = 0
  /\ chunks = <<>>
  /\ totals = <<>>

Closed   == [items |-> open, len |-> openLen]

Oversized == lens[next] > Limit

\* Mutant: the separator is not counted.
NeedsNoSeparator == lens[next]

\* What the item would add to the message.
Needs == IF open = <<>> THEN lens[next] ELSE 1 + lens[next]

Capped == [items |-> <<next>>, len |-> Limit]

Fits == openLen + Needs <= Limit

Join ==
  /\ Fits
  /\ open' = Append(open, next)
  /\ openLen' = openLen + Needs
  /\ UNCHANGED chunks

\* It does not fit: the message is closed, and the item begins the next one.
Break ==
  /\ ~Fits
  /\ ~Oversized
  /\ chunks' = IF open = <<>> THEN chunks ELSE Append(chunks, Closed)
  /\ open' = <<next>> /\ openLen' = lens[next]

\* It is too long for any message.
Cut ==
  /\ ~Fits
  /\ Oversized
  /\ chunks' = (IF open = <<>> THEN chunks ELSE Append(chunks, Closed)) \o <<Capped>>
  /\ open' = <<>> /\ openLen' = 0

Total(k) == IF k = 0 THEN 0 ELSE totals[k]

Item ==
  /\ next <= Len(lens)
  /\ Join \/ Break \/ Cut
  /\ next' = next + 1
  /\ totals' = Append(totals, Total(next - 1) + lens[next])
  /\ UNCHANGED lens

\* After the last item the open message is closed.
Finish ==
  /\ next = Len(lens) + 1
  /\ chunks' = IF open = <<>> THEN chunks ELSE Append(chunks, Closed)
  /\ open' = <<>> /\ openLen' = 0
  /\ next' = next + 1
  /\ UNCHANGED <<lens, totals>>

ChunkNext == Item \/ Finish

ChunkSpec == ChunkInit /\ [][ChunkNext]_chunkVars

----------------------------------------------------------------------------
(* Properties.                                                             *)

Messages == IF open = <<>> THEN chunks ELSE Append(chunks, Closed)

\* The last item that has been read.
Read == IF next > Len(lens) THEN Len(lens) ELSE next - 1

First(m) == m.items[1]
Last(m)  == m.items[Len(m.items)]

\* A message's items follow each other, and it has their length with a separator
\* between any two; only an item that is too long alone is cut.
Carries(m) ==
  /\ m.items # <<>>
  /\ \A i \in 1..Len(m.items) : m.items[i] = First(m) + i - 1
  /\ \/ m.len + Total(First(m) - 1) + 1 = Total(Last(m)) + Len(m.items)
     \/ Len(m.items) = 1 /\ lens[First(m)] > Limit

\* Every item is in one message, in order, and whole unless it is too long alone.
AllCarried ==
  LET n == Len(Messages)
  IN /\ \A c \in 1..n : Carries(Messages[c])
     /\ \A c \in 1..(n - 1) : First(Messages[c + 1]) = Last(Messages[c]) + 1
     /\ IF n = 0 THEN Read = 0 ELSE First(Messages[1]) = 1 /\ Last(Messages[n]) = Read

\* No message is over Discord's limit.
WithinLimit == \A c \in 1..Len(Messages) : Messages[c].len <= Limit

\* No message is closed while the next item would still have fitted, unless one
\* of the two was cut.
NotSplitEarly ==
  \A c \in 1..(Len(Messages) - 1) :
    Messages[c].len + 1 + lens[First(Messages[c + 1])] > Limit

\* A batch cut into messages loses no event and cuts none silently, no message is
\* refused for its length, and there are no more messages than needed.
ChunksSound == AllCarried /\ WithinLimit /\ NotSplitEarly
=============================================================================
