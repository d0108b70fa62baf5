--------------------------- MODULE MCUsbTransfer ---------------------------
(* Small instances of UsbTransfer: a device of three sectors, requests of none
   to three sectors, one of them past the end, two sectors to a transfer. *)
EXTENDS UsbTransfer

MCRequests == {<<0, 0>>, <<0, 1>>, <<0, 3>>, <<1, 2>>, <<2, 2>>}
MCPayloads == {[i \in 0..2 |-> IF i = 1 THEN "b" ELSE "a"],
               [i \in 0..2 |-> IF i = 0 THEN "b" ELSE "a"]}
FewRequests == {<<0, 1>>, <<0, 2>>}
OnePayload == {[i \in 0..1 |-> "b"]}
=============================================================================
