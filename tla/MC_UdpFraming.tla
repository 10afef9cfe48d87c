---------------------------- MODULE MC_UdpFraming ----------------------------
EXTENDS UdpFraming

\* MAX_BUF_LENGTH scaled down to 4 bytes.
MCMaxBuf == 4

\* Frame lengths around the limit: small frames that coalesce, a frame of
\* MAX_BUF_LENGTH + 1 (always delivered), frames between MAX_BUF_LENGTH + 2
\* and 2 * MAX_BUF_LENGTH (delivered or not, by the cut), and one longer
\* than 2 * MAX_BUF_LENGTH.
MCStreams == { <<1, 2, 3>>, <<5, 2>>, <<6, 6>>, <<2, 8>>, <<11, 1>> }
=============================================================================
