----------------------------- MODULE MC_PsuVout -----------------------------
EXTENDS PsuVout

\* READ_VOUT: zero, one, 12 V at exponent -9, and the largest word.
WordsMC == {0, 1, \h1800, \hFFFF}

\* VOUT_MODE: exponents 0, 15, -16, -9, -1, and linear mode bits set.
ModesMC == {\h00, \h0F, \h10, \h17, \h1F, \hE0}

\* -EIO and -ETIMEDOUT.
ErrsMC == {-5, -110}
=============================================================================
