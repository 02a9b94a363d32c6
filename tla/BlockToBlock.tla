---------------------------- MODULE BlockToBlock ----------------------------
(***************************************************************************)
(* The exchange of an array from one block distribution to another         *)
(* (maia.transfer._protocols.BlockToBlock), rank by rank.  An Alltoallv is *)
(* a post of one message per destination followed by the reception of one  *)
(* message per source; a rank may post its second Alltoallv before another *)
(* has completed the first, so messages queue between each pair of ranks.  *)
(***************************************************************************)
EXTENDS Distribution, FiniteSets

CONSTANTS
  MaxSize,     \* bound on the global size of the array
  MaxStride    \* bound on the items per entry

ASSUME BoundAssumption == MaxSize \in Nat /\ MaxStride \in Nat

VARIABLES
  din, dout,   \* full distributions, the same on all the ranks
  variable,    \* TRUE: stride_in is an array; FALSE: it is an int
  stride,      \* stride[g]: items of entry g of the global array (all equal if constant)
  chan,        \* chan[s][d]: messages from s to d, oldest first
  pc,
  stride_out,  \* stride_out[r], received
  data_out     \* data_out[r], received

vars == <<din, dout, variable, stride, chan, pc, stride_out, data_out>>
inputs == <<din, dout, variable, stride>>

Size == din[NRank]

\* The data of entry g: its items, which name their entry and their place in it.
Items(g) == [k \in 1 .. stride[g] |-> <<g, k>>]

Concat(f, n) ==
  LET upto[i \in 0 .. n] == IF i = 0 THEN << >> ELSE upto[i - 1] \o f[i]
  IN  upto[n]

SumTo(f, n) ==
  LET upto[i \in 0 .. n] == IF i = 0 THEN 0 ELSE upto[i - 1] + f[i]
  IN  upto[n]

\* Entries lo + 1 to hi of the global array, as strides and as data.
StrideBlock(lo, hi) == SubSeq(stride, lo + 1, hi)
DataBlock(lo, hi) == Concat([k \in 1 .. hi - lo |-> Items(lo + k)], hi - lo)

stride_in(r) == StrideBlock(din[r], din[r + 1])
data_in(r) == DataBlock(din[r], din[r + 1])

FullDistributions(n) ==
  {d \in [0 .. NRank -> 0 .. n] : /\ d[0] = 0 /\ d[NRank] = n
                                  /\ \A r \in Rank : d[r] <= d[r + 1]}

Init ==
  /\ \E n \in 0 .. MaxSize :
       /\ din \in FullDistributions(n) /\ dout \in FullDistributions(n)
       /\ variable \in BOOLEAN
       /\ stride \in IF variable THEN [1 .. n -> 0 .. MaxStride]
                     ELSE {[g \in 1 .. n |-> s] : s \in 1 .. MaxStride}
  /\ chan = [s \in Rank |-> [d \in Rank |-> << >>]]
  /\ pc = [r \in Rank |-> "create"]
  /\ stride_out = [r \in Rank |-> << >>]
  /\ data_out = [r \in Rank |-> << >>]

Goto(r, l) == pc' = [pc EXCEPT ![r] = l]

Total(counts) == gather_and_shift(counts)[NRank]

-----------------------------------------------------------------------------
\* Equal distributions: SerialBlockToBlock copies its input.
SerialCopy(r) ==
  /\ pc[r] = "create"
  /\ din = dout
  /\ stride_out' = [stride_out EXCEPT ![r] = IF variable THEN stride_in(r) ELSE << >>]
  /\ data_out' = [data_out EXCEPT ![r] = data_in(r)]
  /\ Goto(r, "done")
  /\ UNCHANGED <<inputs, chan>>

\* BlockToBlock.__init__, with its two assertions on the counts.
Create(r) ==
  /\ pc[r] = "create"
  /\ din # dout
  /\ Goto(r, IF /\ Total(send_counts(din, dout, r)) = din[r + 1] - din[r]
                /\ Total(recv_counts(din, dout, r)) = dout[r + 1] - dout[r]
             THEN IF variable THEN "post_stride" ELSE "post_data"
             ELSE "assert_failed")
  /\ UNCHANGED <<inputs, chan, stride_out, data_out>>

Post(r, buffer, counts) ==
  chan' = [chan EXCEPT ![r] = [d \in Rank |-> Append(chan[r][d], Chunk(buffer, counts, d))]]

\* All the messages of one Alltoallv have arrived at r.
Arrived(r) == \A s \in Rank : chan[s][r] # << >>

Received(r) == Concat([i \in 1 .. NRank |-> Head(chan[i - 1][r])], NRank)

Consume(r) == chan' = [s \in Rank |-> [chan[s] EXCEPT ![r] = Tail(@)]]

\* MPI fails on a message that is not of the announced size.
Fits(r, counts) == \A s \in Rank : Len(Head(chan[s][r])) = counts[s]

PostStride(r) ==
  /\ pc[r] = "post_stride"
  /\ Post(r, stride_in(r), send_counts(din, dout, r))
  /\ Goto(r, "recv_stride")
  /\ UNCHANGED <<inputs, stride_out, data_out>>

\* Mutant: a rank whose strides announce no data skips the second Alltoallv.
RecvStride_SkipsData(r) ==
  /\ pc[r] = "recv_stride"
  /\ Arrived(r)
  /\ stride_out' = [stride_out EXCEPT ![r] = Received(r)]
  /\ Consume(r)
  /\ Goto(r, IF data_in(r) = << >> /\ \A k \in DOMAIN Received(r) : Received(r)[k] = 0
             THEN "done" ELSE "post_data")
  /\ UNCHANGED <<inputs, data_out>>

RecvStride(r) ==
  /\ pc[r] = "recv_stride"
  /\ Arrived(r)
  /\ stride_out' = [stride_out EXCEPT ![r] = Received(r)]
  /\ Consume(r)
  /\ Goto(r, IF Fits(r, recv_counts(din, dout, r)) THEN "post_data" ELSE "mpi_error")
  /\ UNCHANGED <<inputs, data_out>>

\* The counts of the data: the sum of the strides of each destination (or source), or
\* the constant stride times the number of entries.
ItemCounts(strides, counts) ==
  LET at == gather_and_shift(counts)
  IN  [i \in Rank |-> SumTo([k \in 1 .. counts[i] |-> strides[at[i] + k]], counts[i])]

ConstantStride == IF Size = 0 THEN 1 ELSE stride[1]

data_send_counts(r) ==
  LET counts == send_counts(din, dout, r)
  IN  IF variable THEN ItemCounts(stride_in(r), counts)
      ELSE [i \in Rank |-> ConstantStride * counts[i]]

data_recv_counts(r) ==
  LET counts == recv_counts(din, dout, r)
  IN  IF variable THEN ItemCounts(stride_out[r], counts)
      ELSE [i \in Rank |-> ConstantStride * counts[i]]

PostData(r) ==
  /\ pc[r] = "post_data"
  /\ Post(r, data_in(r), data_send_counts(r))
  /\ Goto(r, "recv_data")
  /\ UNCHANGED <<inputs, stride_out, data_out>>

RecvData(r) ==
  /\ pc[r] = "recv_data"
  /\ Arrived(r)
  /\ data_out' = [data_out EXCEPT ![r] = Received(r)]
  /\ Consume(r)
  /\ Goto(r, IF Fits(r, data_recv_counts(r)) THEN "done" ELSE "mpi_error")
  /\ UNCHANGED <<inputs, stride_out>>

RankStep(r) ==
  \/ SerialCopy(r) \/ Create(r)
  \/ PostStride(r) \/ RecvStride(r)
  \/ PostData(r) \/ RecvData(r)

Finished == \A r \in Rank : pc[r] = "done"

Terminated == Finished /\ UNCHANGED vars

Next == (\E r \in Rank : RankStep(r)) \/ Terminated

Spec == Init /\ [][Next]_vars /\ \A r \in Rank : WF_vars(RankStep(r))

-----------------------------------------------------------------------------
\* The distributions and the received strides are arrays of counts; between two ranks
\* there is at most one message of each of the two Alltoallv.
TypeOK ==
  /\ din \in [0 .. NRank -> Nat] /\ dout \in [0 .. NRank -> Nat]
  /\ variable \in BOOLEAN
  /\ pc \in [Rank -> {"create", "post_stride", "recv_stride", "post_data", "recv_data",
                      "done", "assert_failed", "mpi_error"}]
  /\ \A r \in Rank : stride_out[r] \in Seq(Nat)
  /\ \A s, d \in Rank : Len(chan[s][d]) <= 2

\* The assertions of BlockToBlock.__init__ hold and every message has the size its
\* receiver computed on its own, whatever the two distributions.
NoFailure == \A r \in Rank : pc[r] \notin {"assert_failed", "mpi_error"}

\* A rank that is done holds exactly the entries the output distribution gives it, in
\* global order, whichever ranks they came from and however far the others are.
Delivered ==
  \A r \in Rank : pc[r] = "done" =>
    /\ data_out[r] = DataBlock(dout[r], dout[r + 1])
    /\ variable => stride_out[r] = StrideBlock(dout[r], dout[r + 1])

\* No message is left behind once all the ranks are done: the object can be reused.
ChannelsDrained == Finished => \A s, d \in Rank : chan[s][d] = << >>

\* Every rank completes the exchange.
Completion == <>Finished

\* The whole of what an exchange promises at any moment: counts computed apart agree, blocks
\* arrive whole and in order, and nothing is left in the channels at the end.
ExchangeExact == TypeOK /\ NoFailure /\ Delivered /\ ChannelsDrained
=============================================================================
