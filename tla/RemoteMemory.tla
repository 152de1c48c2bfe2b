----------------------------- MODULE RemoteMemory -----------------------------
(***************************************************************************)
(* What a backend (tsi_t, dtm_t) promises the host: a memory at the other  *)
(* end of a link.  Writes may be posted: they take effect later, one word  *)
(* at a time, once each and in the order they were made.  A read returns   *)
(* what the words hold at some moment of the read, after every earlier     *)
(* write of the host; the target's cores write the memory meanwhile.       *)
(***************************************************************************)
EXTENDS Naturals, Sequences

CONSTANTS
  Addrs,   \* the addresses of the words
  Data,    \* the contents of a word
  Stride,  \* the distance of two words
  MaxLen,  \* the words that one call may write or read
  NoRead

VARIABLES
  mem,
  posted,  \* the words written by the host and not yet in memory
  rd,      \* the read in progress: [addr, len], or NoRead
  got      \* its words, as far as they have been read

rmvars == <<mem, posted, rd, got>>

\* The address of the nth word from address a on.
Nth(a, n) == a + Stride * (n - 1)

Init ==
  /\ mem \in [Addrs -> Data]
  /\ posted = <<>> /\ rd = NoRead /\ got = <<>>

Post(a, words) ==
  /\ rd = NoRead
  /\ posted' = posted \o [n \in 1..Len(words) |->
                            [addr |-> Nth(a, n), word |-> words[n]]]
  /\ UNCHANGED <<mem, rd, got>>

Apply ==
  /\ posted # <<>>
  /\ mem' = [mem EXCEPT ![Head(posted).addr] = Head(posted).word]
  /\ posted' = Tail(posted)
  /\ UNCHANGED <<rd, got>>

Request(a, len) ==
  /\ rd = NoRead
  /\ rd' = [addr |-> a, len |-> len]
  /\ UNCHANGED <<mem, posted, got>>

Sample ==
  /\ rd # NoRead /\ posted = <<>>
  /\ Len(got) < rd.len
  /\ got' = Append(got, mem[Nth(rd.addr, Len(got) + 1)])
  /\ UNCHANGED <<mem, posted, rd>>

Return ==
  /\ rd # NoRead /\ Len(got) = rd.len
  /\ rd' = NoRead /\ got' = <<>>
  /\ UNCHANGED <<mem, posted>>

CoreWrites(a, w) ==
  /\ mem' = [mem EXCEPT ![a] = w]
  /\ UNCHANGED <<posted, rd, got>>

Next ==
  \/ \E a \in Addrs, n \in 1..MaxLen :
       \/ \E words \in [1..n -> Data] : Post(a, words)
       \/ Request(a, n)
  \/ Apply \/ Sample \/ Return
  \/ \E a \in Addrs, w \in Data : CoreWrites(a, w)

Spec == Init /\ [][Next]_rmvars

===============================================================================
