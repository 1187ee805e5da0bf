\* Two publish requests and an edit of the title between their reads.
SPECIFICATION Spec
CONSTANTS
    Listings = {l1}
    Titles = {coat, jacket}
    Requests = {r1, r2}
    Fills = {f1}
    Ttl = 1
    MaxTime = 0
PROPERTIES SlugIsStable
