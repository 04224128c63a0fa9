------------------------------ MODULE AxisSlave ------------------------------
(***************************************************************************)
(* axis_slave.hpp: the AXI4-Stream receiver, called by hooks as the driver *)
(* is.  Its three users - the hooks, the coroutine that draws tready and   *)
(* the reader - touch different variables.                                 *)
(***************************************************************************)
EXTENDS Integers, SequencesExt

CONSTANT Lanes     \* DATA_WIDTH / 8

VARIABLES
  slv_i,           \* the registered inputs
  recv_buf, rx_queue,
  tready_o,
  m_tready         \* the DUT's input field this receiver writes

\* The constructor leaves tready_i uninitialised.
Init ==
  /\ slv_i \in [tready : BOOLEAN, tvalid : {FALSE}, tdata : {<<>>},
                tkeep : {{}}, tlast : {FALSE}]
  /\ recv_buf = <<>> /\ rx_queue = <<>>
  /\ tready_o = TRUE /\ m_tready = TRUE

update_input(tvalid, tdata, tkeep, tlast) ==
  /\ slv_i' = [tready |-> m_tready, tvalid |-> tvalid, tdata |-> tdata,
               tkeep |-> tkeep, tlast |-> tlast]
  /\ UNCHANGED <<recv_buf, rx_queue, m_tready>>

\* The bytes of the lanes that are kept, in lane order.
KeptBytes(tdata, tkeep) ==
  FlattenSeq([l \in 1 .. Lanes |-> IF l \in tkeep THEN <<tdata[l]>> ELSE <<>>])

TransferWhenValid == slv_i.tvalid                               \* mutant
Transfer == slv_i.tvalid /\ slv_i.tready

update_output ==
  LET buf == recv_buf \o KeptBytes(slv_i.tdata, slv_i.tkeep)
  IN /\ IF ~Transfer THEN UNCHANGED <<recv_buf, rx_queue>>
        ELSE IF slv_i.tlast
             THEN rx_queue' = Append(rx_queue, buf) /\ recv_buf' = <<>>
             ELSE recv_buf' = buf /\ UNCHANGED rx_queue
     /\ m_tready' = tready_o
     /\ UNCHANGED slv_i

set_tready(b) == tready_o' = b

\* recv: the oldest frame leaves the queue.
recv == rx_queue # <<>> /\ rx_queue' = Tail(rx_queue)
=============================================================================
