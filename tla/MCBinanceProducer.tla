-------------------------- MODULE MCBinanceProducer --------------------------
(* Small instances of the producer; the constants are numbers, see the cfg.  *)
EXTENDS BinanceProducer
=============================================================================
