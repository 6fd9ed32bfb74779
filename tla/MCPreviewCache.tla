---- MODULE MCPreviewCache ----
EXTENDS PreviewCache

\* Two files are stored already.
TwoLoaded == <<1, 2>>
ThreeLoaded == <<1, 2, 5>>
====
