---------------------------- MODULE MCMessageBus ----------------------------
(* The three message buses for TLC: channels of one message, so that they    *)
(* are full as soon as they are used.                                        *)
EXTENDS BrokerBus
=============================================================================
