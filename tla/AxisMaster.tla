----------------------------- MODULE AxisMaster -----------------------------
(***************************************************************************)
(* axis_master.hpp: the AXI4-Stream driver.  update_input is called by a   *)
(* sample hook before the DUT is evaluated, update_output by a drive hook  *)
(* after it; the driver writes the DUT's input fields itself, not through  *)
(* Signal::next.  A module that uses this one conjoins its actions.        *)
(***************************************************************************)
EXTENDS Integers, Sequences

CONSTANT Lanes     \* byte_width

VARIABLES
  tx_queue,        \* one queue per field: data, id, dest, user, sof
  tx,              \* the same fields of the current transaction
  tx_buf_idx,
  mst_tready_i,    \* tready_i
  s_axis           \* the DUT's input fields this driver writes

vars == <<tx_queue, tx, tx_buf_idx, mst_tready_i, s_axis>>

Fields == {"data", "id", "dest", "user", "sof"}

Init ==
  /\ tx_queue = [f \in Fields |-> <<>>]
  /\ tx = [data |-> <<>>, id |-> 0, dest |-> 0, user |-> 0, sof |-> FALSE]
  /\ tx_buf_idx = 0 /\ mst_tready_i = FALSE
  /\ s_axis = [tvalid |-> FALSE, tdata |-> [l \in 1 .. Lanes |-> 0], tkeep |-> {},
               tlast |-> FALSE, tid |-> 0, tdest |-> 0, tuser |-> 0]

send(frame) ==
  /\ tx_queue' = [f \in Fields |-> Append(tx_queue[f], frame[f])]
  /\ UNCHANGED <<tx, tx_buf_idx, mst_tready_i, s_axis>>

update_input(tready) ==
  /\ mst_tready_i' = tready
  /\ UNCHANGED <<tx_queue, tx, tx_buf_idx, s_axis>>

\* A new transaction starts when the buffer is empty: the buffer, not a flag,
\* says whether one is under way, so an empty frame is taken and never sent.
Starts == tx.data = <<>> /\ tx_queue["data"] # <<>>
Front(f) == IF tx_queue[f] # <<>> THEN Head(tx_queue[f])
            ELSE IF f = "sof" THEN FALSE ELSE tx[f]
Rest(f) == IF tx_queue[f] # <<>> THEN Tail(tx_queue[f]) ELSE <<>>

SetBit0(user) == IF user % 2 = 1 THEN user ELSE user + 1

\* One beat of transaction t from byte idx on; lanes that carry no byte keep
\* what they held.
SofOnEveryBeat(t, idx) == t["sof"]                              \* mutant
SofOn(t, idx) == idx = 0 /\ t["sof"]
Beat(t, idx) ==
  LET left == Len(t["data"]) - idx
      lanes == {l \in 1 .. Lanes : l <= left}
  IN [tvalid |-> TRUE,
      tdata |-> [l \in 1 .. Lanes |-> IF l \in lanes THEN t["data"][idx + l]
                                                     ELSE s_axis.tdata[l]],
      tkeep |-> lanes, tlast |-> left <= Lanes,
      tid |-> t["id"], tdest |-> t["dest"],
      tuser |-> IF SofOn(t, idx) THEN SetBit0(t["user"]) ELSE t["user"]]

\* The beat on the wires was taken at the edge that has just been evaluated.
Advance ==
  LET t == IF Starts THEN [f \in Fields |-> Front(f)] ELSE tx
      idx == IF Starts THEN 0 ELSE tx_buf_idx
      last == Len(t["data"]) - idx <= Lanes
  IN /\ tx_queue' = IF Starts THEN [f \in Fields |-> Rest(f)] ELSE tx_queue
     /\ IF t["data"] = <<>>
        THEN /\ s_axis' = [s_axis EXCEPT !.tvalid = FALSE]
             /\ tx' = t /\ tx_buf_idx' = idx
        ELSE /\ s_axis' = Beat(t, idx)
             /\ tx' = IF last THEN [t EXCEPT !["data"] = <<>>] ELSE t
             /\ tx_buf_idx' = IF last THEN 0 ELSE idx + Lanes
     /\ UNCHANGED mst_tready_i

GoesOnAnyway == TRUE                                            \* mutant
Taken == mst_tready_i

update_output == IF Taken THEN Advance ELSE UNCHANGED vars
=============================================================================
