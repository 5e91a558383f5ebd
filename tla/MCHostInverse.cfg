SPECIFICATION MCSpec
CONSTANTS
    d1 = d1  d2 = d2  c1 = c1  c2 = c2
    go = go  rd = rd  gr = gr  bad = bad  feed = feed
    book = book  page = page  NoType = NoType
    aBook = aBook  aPage = aPage  capPage = capPage
    seg = seg  url = url  Blank = Blank  Nobody = Nobody
    Segments = {seg, url, Blank}
    Doms = {d1, d2}
    Names = {go, rd, gr, bad, feed}
    Malformed = {bad}
    Reserved = {feed}
    Infos <- MCInfos
    Callers = {c1, c2}
    Types = {book, page}
    Authorities = {aBook, aPage, capPage}
    Lower <- MCLower
    TypeAuthority <- MCTypeAuthority
    OpLists <- MCOpLists
    RecordIds <- MCRecordIds
    Typed <- MCTyped
    Links <- MCLinks
    Owners = {d1, d2}
    Classifiers = {d1}
    Classified <- MCClassified
INVARIANT MintInvertsGet
CHECK_DEADLOCK FALSE
