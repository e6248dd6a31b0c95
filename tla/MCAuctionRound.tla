--------------------------- MODULE MCAuctionRound ---------------------------
(* Model-checking instance of AuctionRound: values on both sides of the    *)
(* limits of _validar_proposta.                                            *)
EXTENDS AuctionRound

MCEtas == {0, 1, 2}
MCPrices == {-1, 0, 1}
=============================================================================
