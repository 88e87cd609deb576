------------------------------ MODULE MCLlmProxy ------------------------------
EXTENDS LlmProxyProperties

\* Each line in an event of its own.
MCStreams == {
  <<"c", "n", "n", "u", "n", "n">>,
  <<"u", "n", "n", "v", "n", "n">>,    \* a report with every chunk
  <<"c", "n", "n", "u", "n">>,         \* no last blank line
  <<"d", "n", "n">>,                   \* nothing but [DONE]
  <<"u", "r", "n", "r", "n">> }        \* CRLF

MCAnswers == {<<"c", "u">>, <<"c">>}

=============================================================================
