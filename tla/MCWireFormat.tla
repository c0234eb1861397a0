---------------------------- MODULE MCWireFormat ----------------------------
EXTENDS WireFormat

Lit == INSTANCE LitMessages
Lnd == INSTANCE LndMessages
LndPayments == INSTANCE LndPaymentMessages
Loop == INSTANCE LoopMessages
Pool == INSTANCE PoolMessages

\* Every message class of the web app.
AllMessages ==
    Lit!Schemas \cup Lnd!Schemas \cup LndPayments!Schemas \cup Loop!Schemas \cup Pool!Schemas
=============================================================================
