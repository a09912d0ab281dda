--------------------------- MODULE MCAsyncAiClient ---------------------------
\* AsyncAiClient with small queues, a few flows and a few changes of connection.
EXTENDS AsyncAiClient
=============================================================================
